---- MODULE Spec2Model ----
(***************************************************************************)
(* Online synchronisation engine of the Yamb scorekeeper: the remote store *)
(* (games, players, game_state, game_actions), the row-change              *)
(* notifications, and one OnlineGameManager per player (turn ownership,    *)
(* virtual dice, score commit, completion, leave, reconnect).                   *)
(***************************************************************************)
EXTENDS Integers, Sequences, FiniteSets, TLC

\* ---------------------------------------------------------------- bounds
NumPlayers == 2
NumKeys == 1
MaxVal == 2
MaxCommits == 2
MaxInputs == 4
MaxRapid == 2
MaxFaults == 1
MaxLeaves == 1
MaxOffline == 2
MaxChecks == 1
MaxSubs == 3
MaxSignals == 2
NumDice == 2
NumFaces == 2
NumCats == 2
NumCallers == 3
\* ticks of the reconnect loop from a scheduling to the attempt
ReconnectTicks == 2

\* ------------------------------------------------------ program constants
MAX_ROLLS == 3
realtimeMaxResubscribeAttempts == 5
max_players == 2

Players == 1..NumPlayers
Keys == 1..NumKeys
Vals == 1..MaxVal
Slots == 1..MaxCommits
Null == 0
HostId == 1

\* number of input cells of one scorecard (columns x input categories)
TOTAL_INPUT_CELLS == Cardinality(Keys)

EmptyCard == [k \in Keys |-> Null]

VARIABLES
  game,        \* games row: status, current_turn_player_id, winner_id
  players,     \* ids that have a players row (player_order = id)
  game_state,  \* game_state row per player: scorecard, rolls_remaining
  actions,     \* game_actions log: dice_rolled entries of the turn owner
               \* since the turn last changed, completion writes accepted
  gameNotes,   \* games row-change payloads published so far
  stateNotes,  \* game_state row-change payloads published so far
  client,      \* OnlineGameManager, VirtualDiceUI and score inputs per player
  commits,     \* syncScoreAndEndTurn calls in flight per client
  checks,      \* checkGameCompletion calls started by handleStateUpdate
  rollTimers,  \* roll wrapper calls in flight: the nextState to show, whether
               \* the 600 ms animation has ended, whether its sync has settled
  diceWrites,  \* syncDiceRoll requests not yet processed by the store
  rejoins,     \* rejoinGame calls in flight
  rt,          \* realtime side of each OnlineGameManager: the subscription
               \* handle, the handles open in realtimeService, the link
               \* state, the player status map, the lobby dialog
  playerNotes, \* players row-change payloads published so far
  diceState,   \* a dice state of dice.js: values, locked, rollsRemaining,
               \* history
  diceUI,      \* one VirtualDiceUI with its column rules: filled cells,
               \* announced category, rolls remaining
  lobby,       \* createGame / joinGame / startGame calls in flight and
               \* their outcomes, per caller
  budget       \* use of the bounded resources of the model

vars == <<game, players, game_state, actions, gameNotes, stateNotes, client,
          commits, checks, rollTimers, diceWrites, rejoins, rt, playerNotes,
          diceState, diceUI, lobby, budget>>

\* ------------------------------------------------------------------ dice.js

Dice == 1..NumDice
Faces == 1..NumFaces

\* createDiceState() of dice.js: the values, locked and rollsRemaining
\* fields and the history
createDice ==
  [values |-> [i \in Dice |-> 1], locked |-> [i \in Dice |-> FALSE],
   rollsRemaining |-> MAX_ROLLS, history |-> <<>>]

\* a roll that draws every die again, locked or not
rollDiceAll(state, draws) ==
  IF state.rollsRemaining <= 0 THEN state
  ELSE [state EXCEPT !.values = draws,
                     !.rollsRemaining = @ - 1,
                     !.history = Append(@, draws)]

\* a roll that takes a roll away even when none is left
rollDiceUnguarded(state, draws) ==
  LET newValues == [i \in Dice |->
                      IF state.locked[i] THEN state.values[i] ELSE draws[i]]
  IN [state EXCEPT !.values = newValues,
                   !.rollsRemaining = @ - 1,
                   !.history = Append(@, newValues)]

\* rollDiceWithLocked(state); draws[i] is the outcome of the rollDie() call
\* made for die i
rollDiceWithLocked(state, draws) ==
  IF state.rollsRemaining <= 0 THEN state
  ELSE LET newValues == [i \in Dice |->
                           IF state.locked[i] THEN state.values[i]
                           ELSE draws[i]]
       IN [state EXCEPT !.values = newValues,
                        !.rollsRemaining = @ - 1,
                        !.history = Append(@, newValues)]

\* toggleDiceLock(state, index)
toggleDiceLock(state, index) ==
  IF index \notin Dice THEN state
  ELSE [state EXCEPT !.locked[index] = ~@]

\* ------------------------------------------- columnRules.js, virtualDiceUI.js

Cols == {"down", "up", "free", "announce"}
Cats == 1..NumCats

\* a VirtualDiceUI at startTurn with an empty scorecard: scores holds the
\* filled cells <<column, category>>
NewSheet == [scores |-> {}, announced |-> Null, rollsRemaining |-> MAX_ROLLS]

\* canFillCategory(columnKey, categoryKey, currentScores, announcement);
\* categoryOrder is the order of Cats, the up column runs through it backwards
canFillCategory(columnKey, categoryKey, currentScores, announcement) ==
  LET open == {k \in Cats : <<columnKey, k>> \notin currentScores} IN
  IF <<columnKey, categoryKey>> \in currentScores THEN FALSE
  ELSE IF columnKey = "free" THEN TRUE
  ELSE IF columnKey = "announce"
       THEN IF announcement # Null THEN categoryKey = announcement ELSE TRUE
  ELSE IF columnKey = "down"
       THEN \A k \in open : categoryKey <= k
       ELSE \A k \in open : categoryKey >= k

\* getAvailableCategories(columnKey, currentScores, announcement)
getAvailableCategories(columnKey, currentScores, announcement) ==
  {k \in Cats : canFillCategory(columnKey, k, currentScores, announcement)}

\* checkIfAnnouncementNeeded(): only the announce column has room
checkIfAnnouncementNeeded(sh) ==
  /\ \A col \in {"down", "up", "free"} :
        getAvailableCategories(col, sh.scores, Null) = {}
  /\ getAvailableCategories("announce", sh.scores, sh.announced) # {}

\* calculateScoringOptions(values): the cells <<column, category>> offered
\* for the current dice; updatePossibleScores offers none before the first
\* roll
calculateScoringOptions(sh) ==
  LET columnsToCheck ==
        IF sh.announced # Null THEN {"announce"}
        ELSE {"down", "up", "free"}
               \cup (IF sh.rollsRemaining >= 2 THEN {"announce"} ELSE {})
      categoriesToShow ==
        IF sh.announced # Null THEN {sh.announced} ELSE Cats
  IN IF sh.rollsRemaining = MAX_ROLLS THEN {}
     ELSE {o \in columnsToCheck \X categoriesToShow :
             canFillCategory(o[1], o[2], sh.scores, sh.announced)}

\* ------------------------------------------------------- lobby (waiting room)

\* the people who may create or join the room
Callers == 1..NumCallers

\* no joinGame / startGame call in flight; player_order is that of the
\* caller's players row, 0 without one
NoCalls ==
  [c \in Callers |-> [pc |-> "idle", outcome |-> "none",
                      player_order |-> IF c \in Players THEN c ELSE 0]]

\* ------------------------------------------------------------- pure helpers

\* createDiceState: fresh dice, three rolls
createDiceState == MAX_ROLLS

FilledCount(card) == Cardinality({k \in Keys : card[k] # Null})

\* isGameComplete(scorecard)
isGameComplete(card) == FilledCount(card) >= TOTAL_INPUT_CELLS

RECURSIVE SumCard(_, _)
SumCard(card, ks) ==
  IF ks = {} THEN 0
  ELSE LET k == CHOOSE x \in ks : TRUE
       IN card[k] + SumCard(card, ks \ {k})

\* calculateFinalScore(scorecard).total
calculateFinalScore(card) == SumCard(card, Keys)

\* getAllGameStates: the game_state rows of the members.  The query's
\* order("player_order", {foreignTable: "players"}) orders the embedded
\* players resource of each row, not the rows, so the rows come back in an
\* order the store chooses: every arrangement of the members' rows.
getAllGameStates(ps) ==
  {rows \in [1..Cardinality(ps) -> ps] :
     \A i, j \in 1..Cardinality(ps) : rows[i] = rows[j] => i = j}

\* buildStandingsFromStates(states)[0].id: highest total, stable sort keeps
\* the order of the fetched rows for equal totals
StandingsWinner(rows, states) ==
  IF Len(rows) = 0 THEN Null
  ELSE rows[CHOOSE i \in 1..Len(rows) :
         \A j \in 1..Len(rows) :
            \/ calculateFinalScore(states[rows[i]].scorecard)
                 > calculateFinalScore(states[rows[j]].scorecard)
            \/ /\ calculateFinalScore(states[rows[i]].scorecard)
                    = calculateFinalScore(states[rows[j]].scorecard)
               /\ i <= j]

\* a completion test that is satisfied by one full scorecard
AllCompleteAny(ps, states) ==
  /\ ps # {}
  /\ \E p \in ps : FilledCount(states[p].scorecard) >= TOTAL_INPUT_CELLS

\* checkGameCompletion: every fetched row has all input cells filled
AllComplete(ps, states) ==
  /\ ps # {}
  /\ \A p \in ps : FilledCount(states[p].scorecard) >= TOTAL_INPUT_CELLS

\* syncTurnEnd: players[(currentIndex + 1) % players.length].id
NextPlayerOf(p, ps) ==
  IF \E q \in ps : q > p
  THEN CHOOSE q \in ps : q > p /\ \A r \in ps : r > p => q <= r
  ELSE CHOOSE q \in ps : \A r \in ps : q <= r

\* canInteractThisTurn()
canInteractThisTurn(cl) ==
  /\ cl.isMyTurn
  /\ ~cl.turnChangePending
  /\ ~cl.gameCompletionHandled
  /\ cl.localConnectionStatus = "connected"

\* updateUI(): the virtual dice controls follow canInteractThisTurn
updateUI(cl) == [cl EXCEPT !.controlsEnabled = canInteractThisTurn(cl)]

\* getCurrentScorecard(): the player's row of the fetched snapshot, {} when
\* the row is missing
getCurrentScorecard(p) ==
  IF p \in players THEN game_state[p].scorecard ELSE EmptyCard

\* updateVirtualDiceGameState(): the own scorecard is fetched into the
\* options view and the controls follow canInteractThisTurn
updateVirtualDiceGameState(cl, self) ==
  IF ~cl.usingVirtualDice THEN cl
  ELSE updateUI([cl EXCEPT !.view = getCurrentScorecard(self),
                           !.viewOf = self])

\* updateTurnState() of player self on the record cl whose
\* currentTurnPlayerId has just been assigned
updateTurnState(cl, self) ==
  LET was == cl.isMyTurn
      is == (cl.currentTurnPlayerId = self)
      turned == [cl EXCEPT
                   !.isMyTurn = is,
                   !.turnChangePending = IF ~was /\ is THEN FALSE ELSE @]
  IN IF cl.usingVirtualDice
     THEN [turned EXCEPT
             !.rollsRemaining = IF was # is THEN createDiceState ELSE @,
             !.controlsEnabled = IF was /\ ~is THEN FALSE
                                 ELSE IF ~was /\ is THEN TRUE ELSE @,
             !.view = IF ~was /\ is THEN getCurrentScorecard(self) ELSE @,
             !.viewOf = IF ~was /\ is THEN self ELSE @]
     ELSE updateUI(turned)

IdleCommit == [pc |-> "idle", key |-> Null, val |-> Null,
               card |-> EmptyCard, next |-> Null, winner |-> Null]

DefaultRow ==
  [scorecard |-> EmptyCard, rolls_remaining |-> MAX_ROLLS,
   pending_announcement |-> Null]

NewClient(self, turn) ==
  [active |-> TRUE,
   usingVirtualDice |-> TRUE,
   currentTurnPlayerId |-> turn,
   isMyTurn |-> (turn = self),
   turnChangePending |-> FALSE,
   gameCompletionHandled |-> FALSE,
   localConnectionStatus |-> "connected",
   rollsRemaining |-> MAX_ROLLS,
   controlsEnabled |-> (turn = self),
   scores |-> EmptyCard,
   view |-> EmptyCard,
   viewOf |-> self,
   announced |-> Null,
   lastAlert |-> "none"]

\* the realtime side of a manager in a running game: the subscription made
\* by handleGameStarted has reached SUBSCRIBED, the channel-ready signal has
\* been dispatched and the lobby dialog has closed
NewRealtime ==
  [unsubscribe |-> 1, activeId |-> 1, stale |-> {}, open |-> {1}, next |-> 2,
   state |-> "connected", timer |-> FALSE, attempts |-> 0, calls |-> <<>>,
   start |-> FALSE, ready |-> TRUE, signals |-> 1, lobby |-> "closed",
   warmup |-> FALSE, reconnectAttemptInFlight |-> FALSE,
   nextReconnectAttemptAt |-> Null,
   status |-> [p \in Players |-> "connected"]]

\* ---------------------------------------------------------------- initial
\* A started game (startGame gave the turn to the first player and its update
\* of the games row was published) in which every player's manager has
\* finished handleGameStarted.
Init ==
  /\ game = [status |-> "in_progress", current_turn_player_id |-> 1,
             winner_id |-> Null]
  /\ players = Players
  /\ game_state = [p \in Players |-> DefaultRow]
  /\ actions = [rolled |-> 0, completed |-> 0]
  /\ gameNotes = {[turn |-> 1, status |-> "in_progress"]}
  /\ stateNotes = {}
  /\ client = [p \in Players |-> NewClient(p, 1)]
  /\ commits = [p \in Players |-> [s \in Slots |-> IdleCommit]]
  /\ checks = [p \in Players |-> [reads |-> 0, writes |-> <<>>]]
  /\ rollTimers = [p \in Players |-> <<>>]
  /\ diceWrites = [p \in Players |-> <<>>]
  /\ rejoins = [p \in Players |-> "idle"]
  /\ rt = [p \in Players |-> NewRealtime]
  /\ playerNotes = {}
  /\ diceState = createDice
  /\ diceUI = NewSheet
  /\ lobby = NoCalls
  /\ budget = [inputs |-> 0, rapid |-> 0, faults |-> 0, leaves |-> 0,
               offline |-> 0]

\* ------------------------------------------------------------ store writes

Publish(row) == [turn |-> row.current_turn_player_id, status |-> row.status]

\* the payload of a game_state row change: the new row of player p
StateNote(p, row, action) ==
  [player_id |-> p, scorecard |-> row.scorecard,
   rolls_remaining |-> row.rolls_remaining,
   pending_announcement |-> row.pending_announcement,
   last_action |-> action]

CanFail == budget.faults < MaxFaults
Fault == budget' = [budget EXCEPT !.faults = @ + 1]

\* ------------------------------------------------------------- user inputs

\* an earlier input of the same player is still being processed
Busy(c) ==
  \/ \E s \in Slots : commits[c][s].pc # "idle"
  \/ rollTimers[c] # <<>>
  \/ diceWrites[c] # <<>>

\* a click of player c: the run holds at most MaxInputs clicks, at most
\* MaxRapid of them made while the player's previous click is in progress
CanInput(c) ==
  /\ budget.inputs < MaxInputs
  /\ Busy(c) => budget.rapid < MaxRapid

Input(c) ==
  budget' = [budget EXCEPT !.inputs = @ + 1,
                           !.rapid = IF Busy(c) THEN @ + 1 ELSE @]

\* ------------------------------------------------- score commit (one call)

FirstIdleSlot(c) ==
  CHOOSE s \in Slots :
    /\ commits[c][s].pc = "idle"
    /\ \A r \in Slots : commits[c][r].pc = "idle" => s <= r

\* finally-block of syncScoreAndEndTurn once the commit lock was applied
ReleaseLock(cl) == updateUI([cl EXCEPT !.turnChangePending = FALSE])

\* catch-block of syncScoreAndEndTurn
CatchCommit(cl) ==
  updateUI([cl EXCEPT !.turnChangePending = FALSE,
                      !.lastAlert = "save_failed"])

\* handleMainPanelScoreSelect (the wrapped onScoreSelect callback): nothing
\* when the local input is already filled; else setScore fills it and
\* virtualDiceUI.startTurn resets the dice with getCurrentScores()
handleMainPanelScoreSelect(cl, self, k, v) ==
  IF cl.scores[k] # Null THEN cl
  ELSE LET filled == [cl.scores EXCEPT ![k] = v]
       IN [cl EXCEPT !.scores = filled, !.view = filled, !.viewOf = self,
                     !.rollsRemaining = createDiceState,
                     !.announced = Null]

\* virtualDiceUI.onScoreSelect (online wrapper): a click on a score option
\* runs the local callback and starts syncScoreAndEndTurn, whose first await
\* is getCurrentScorecard
ScoreSelect(c, k, v) ==
  /\ client[c].active
  /\ client[c].usingVirtualDice
  /\ client[c].controlsEnabled
  /\ client[c].rollsRemaining < MAX_ROLLS
  /\ client[c].view[k] = Null
  /\ canInteractThisTurn(client[c])
  /\ \E s \in Slots : commits[c][s].pc = "idle"
  /\ CanInput(c) /\ Input(c)
  /\ client' = [client EXCEPT ![c] = handleMainPanelScoreSelect(@, c, k, v)]
  /\ commits' = [commits EXCEPT ![c][FirstIdleSlot(c)] =
                   [IdleCommit EXCEPT !.pc = "read", !.key = k, !.val = v]]
  /\ UNCHANGED <<diceState, diceUI, lobby, rt, playerNotes, game, players, game_state, actions, gameNotes, stateNotes,
                 checks, rollTimers, diceWrites, rejoins>>

\* handleManualScoreCommit (manual-entry mode): a committed score input
\* passes the handler's guards; its first await is getCurrentScorecard
ManualScoreCommit(c, k, v) ==
  /\ client[c].active
  /\ ~client[c].usingVirtualDice
  /\ ~client[c].turnChangePending
  /\ client[c].isMyTurn
  /\ client[c].scores[k] = Null
  /\ \E s \in Slots : commits[c][s].pc = "idle"
  /\ CanInput(c) /\ Input(c)
  /\ commits' = [commits EXCEPT ![c][FirstIdleSlot(c)] =
                   [IdleCommit EXCEPT !.pc = "mread", !.key = k, !.val = v]]
  /\ UNCHANGED <<diceState, diceUI, lobby, rt, playerNotes, game, players, game_state, actions, gameNotes, stateNotes,
                 client, checks, rollTimers, diceWrites, rejoins>>

\* handleManualScoreCommit after getCurrentScorecard returned card: a
\* persisted value is put back, else the inputs are disabled and
\* syncScoreAndEndTurn is called
AfterManualRead(c, s, card) ==
  LET t == commits[c][s] IN
  IF card[t.key] # Null
  THEN /\ client' = [client EXCEPT ![c] =
             updateUI([@ EXCEPT !.scores[t.key] = card[t.key],
                                !.lastAlert = "already_filled"])]
       /\ commits' = [commits EXCEPT ![c][s] = IdleCommit]
  ELSE /\ client' = [client EXCEPT ![c].controlsEnabled = FALSE]
       /\ commits' = [commits EXCEPT ![c][s].pc = "read"]

ManualRead(c, s) ==
  /\ commits[c][s].pc = "mread"
  /\ AfterManualRead(c, s, getCurrentScorecard(c))
  /\ UNCHANGED <<diceState, diceUI, lobby, rt, playerNotes, game, players, game_state, actions, gameNotes, stateNotes,
                 checks, rollTimers, diceWrites, rejoins, budget>>

ManualReadFail(c, s) ==
  /\ commits[c][s].pc = "mread"
  /\ CanFail /\ Fault
  /\ AfterManualRead(c, s, EmptyCard)
  /\ UNCHANGED <<diceState, diceUI, lobby, rt, playerNotes, game, players, game_state, actions, gameNotes, stateNotes,
                 checks, rollTimers, diceWrites, rejoins>>

\* syncScoreAndEndTurn after getCurrentScorecard returned card: the
\* already-filled check, then the local input, the commit lock and the
\* syncScoreEntry request
AfterScorecardRead(c, s, card) ==
  LET t == commits[c][s] IN
  IF card[t.key] # Null
  THEN /\ client' = [client EXCEPT ![c].lastAlert = "already_filled"]
       /\ commits' = [commits EXCEPT ![c][s] = IdleCommit]
  ELSE /\ client' = [client EXCEPT ![c] =
                       updateUI([@ EXCEPT !.turnChangePending = TRUE,
                                          !.scores[t.key] = t.val])]
       /\ commits' = [commits EXCEPT ![c][s] =
                        [t EXCEPT !.pc = "write",
                                  !.card = [card EXCEPT ![t.key] = t.val]]]

\* syncScoreAndEndTurn: getCurrentScorecard returned the stored scorecard
CommitRead(c, s) ==
  /\ commits[c][s].pc = "read"
  /\ AfterScorecardRead(c, s, getCurrentScorecard(c))
  /\ UNCHANGED <<diceState, diceUI, lobby, rt, playerNotes, game, players, game_state, actions, gameNotes, stateNotes,
                 checks, rollTimers, diceWrites, rejoins, budget>>

\* getCurrentScorecard: a failed snapshot read is caught and yields {}
CommitReadFail(c, s) ==
  /\ commits[c][s].pc = "read"
  /\ CanFail /\ Fault
  /\ AfterScorecardRead(c, s, EmptyCard)
  /\ UNCHANGED <<diceState, diceUI, lobby, rt, playerNotes, game, players, game_state, actions, gameNotes, stateNotes,
                 checks, rollTimers, diceWrites, rejoins>>

\* syncScoreEntry: the store replaces the whole scorecard of the row
CommitWrite(c, s) ==
  /\ commits[c][s].pc = "write"
  /\ commits' = [commits EXCEPT ![c][s].pc = "wdone"]
  /\ IF c \in players
     THEN /\ game_state' = [game_state EXCEPT
                ![c].scorecard = commits[c][s].card,
                ![c].pending_announcement = Null]
          /\ stateNotes' = stateNotes \cup
                {StateNote(c, game_state'[c], "score_entered")}
     ELSE UNCHANGED <<game_state, stateNotes>>
  /\ UNCHANGED <<diceState, diceUI, lobby, rt, playerNotes, game, players, actions, gameNotes, client, checks,
                 rollTimers, diceWrites, rejoins, budget>>

\* syncScoreEntry rejected or timed out: catch and finally of the caller
CommitWriteFail(c, s) ==
  /\ commits[c][s].pc = "write"
  /\ CanFail /\ Fault
  /\ client' = [client EXCEPT ![c] = CatchCommit(@)]
  /\ commits' = [commits EXCEPT ![c][s] = IdleCommit]
  /\ UNCHANGED <<diceState, diceUI, lobby, rt, playerNotes, game, players, game_state, actions, gameNotes, stateNotes,
                 checks, rollTimers, diceWrites, rejoins>>

\* syncScoreAndEndTurn after syncScoreEntry resolved: local scorecard, then
\* the completion check or the turn end
CommitWriteDone(c, s) ==
  LET t == commits[c][s]
      cl == IF client[c].usingVirtualDice
            THEN updateUI([client[c] EXCEPT !.view = t.card, !.viewOf = c])
            ELSE client[c]
  IN
  /\ t.pc = "wdone"
  /\ IF isGameComplete(t.card)
     THEN IF cl.gameCompletionHandled
          THEN /\ client' = [client EXCEPT ![c] = ReleaseLock(cl)]
               /\ commits' = [commits EXCEPT ![c][s] = IdleCommit]
          ELSE /\ client' = [client EXCEPT ![c] = cl]
               /\ commits' = [commits EXCEPT ![c][s].pc = "cread"]
     ELSE /\ client' = [client EXCEPT ![c] = cl]
          /\ commits' = [commits EXCEPT ![c][s].pc = "tread"]
  /\ UNCHANGED <<diceState, diceUI, lobby, rt, playerNotes, game, players, game_state, actions, gameNotes, stateNotes,
                 checks, rollTimers, diceWrites, rejoins, budget>>

\* ---------------------------------------------------- completion detection

\* endGame(allStates): does this client write the completion to the store?
\* (the winner itself, or the host)
WritesCompletion(c, winner) == winner # Null /\ (c = winner \/ c = HostId)

\* syncGameComplete processed by the store
StoreComplete(winner) ==
  /\ game' = [game EXCEPT !.status = "completed", !.winner_id = winner]
  /\ gameNotes' = gameNotes \cup
       {Publish([game EXCEPT !.status = "completed"])}
  /\ actions' = [actions EXCEPT !.completed = @ + 1]

\* checkGameCompletion awaited by syncScoreAndEndTurn: getAllGameStates
\* returned; endGame sets the one-shot flag before its first await
CommitCheckRead(c, s) ==
  \E rows \in getAllGameStates(players) :
  LET t == commits[c][s]
      cl == client[c]
      w == StandingsWinner(rows, game_state)
  IN
  /\ t.pc = "cread"
  /\ IF AllComplete(players, game_state) /\ ~cl.gameCompletionHandled
     THEN IF WritesCompletion(c, w)
          THEN /\ client' = [client EXCEPT ![c].gameCompletionHandled = TRUE]
               /\ commits' = [commits EXCEPT ![c][s].pc = "cwrite",
                                             ![c][s].winner = w]
          ELSE /\ client' = [client EXCEPT ![c] =
                    ReleaseLock([cl EXCEPT !.gameCompletionHandled = TRUE])]
               /\ commits' = [commits EXCEPT ![c][s] = IdleCommit]
     ELSE IF cl.gameCompletionHandled
          THEN /\ client' = [client EXCEPT ![c] = ReleaseLock(cl)]
               /\ commits' = [commits EXCEPT ![c][s] = IdleCommit]
          ELSE /\ commits' = [commits EXCEPT ![c][s].pc = "tread"]
               /\ UNCHANGED client
  /\ UNCHANGED <<diceState, diceUI, lobby, rt, playerNotes, game, players, game_state, actions, gameNotes, stateNotes,
                 checks, rollTimers, diceWrites, rejoins, budget>>

\* endGame inside the commit: syncGameComplete accepted, the game is finished
\* and the commit returns without a turn end
CommitCompleteWrite(c, s) ==
  /\ commits[c][s].pc = "cwrite"
  /\ StoreComplete(commits[c][s].winner)
  /\ client' = [client EXCEPT ![c] = ReleaseLock(@)]
  /\ commits' = [commits EXCEPT ![c][s] = IdleCommit]
  /\ UNCHANGED <<diceState, diceUI, lobby, rt, playerNotes, players, game_state, stateNotes, checks, rollTimers,
                 diceWrites, rejoins, budget>>

\* endGame inside the commit: syncGameComplete failed; the error is logged
\* and the commit still returns as finished
CommitCompleteFail(c, s) ==
  /\ commits[c][s].pc = "cwrite"
  /\ CanFail /\ Fault
  /\ client' = [client EXCEPT ![c] = ReleaseLock(@)]
  /\ commits' = [commits EXCEPT ![c][s] = IdleCommit]
  /\ UNCHANGED <<diceState, diceUI, lobby, rt, playerNotes, game, players, game_state, actions, gameNotes, stateNotes,
                 checks, rollTimers, diceWrites, rejoins>>

\* handleStateUpdate(payload) for any payload published so far, of another
\* player's row: a roll or lock payload puts the scorecard it carries into
\* the dice view; the handler ends in checkGameCompletion, which returns at
\* once when the one-shot flag is set, and updateUI.  MaxChecks bounds the
\* completion checks a client has pending.
DeliverStateUpdate(c, n) ==
  LET cl == client[c]
      dice == n.last_action \in {"roll_dice", "lock_dice"}
      diceShown == IF cl.usingVirtualDice /\ dice /\ ~cl.isMyTurn
                   THEN [cl EXCEPT !.rollsRemaining = n.rolls_remaining,
                                   !.controlsEnabled = FALSE]
                   ELSE cl
      shown == IF cl.usingVirtualDice /\ dice
               THEN [diceShown EXCEPT !.view = n.scorecard,
                                      !.viewOf = n.player_id]
               ELSE cl
  IN
  /\ cl.active
  /\ n \in stateNotes /\ n.player_id # c
  /\ checks[c].reads < MaxChecks
  /\ client' = [client EXCEPT ![c] = updateUI(shown)]
  /\ checks' = [checks EXCEPT
         ![c].reads = IF cl.gameCompletionHandled THEN @ ELSE @ + 1]
  /\ UNCHANGED <<diceState, diceUI, lobby, rt, playerNotes, game, players, game_state, actions, gameNotes, stateNotes,
                 commits, rollTimers, diceWrites, rejoins, budget>>

\* checkGameCompletion from a notification: getAllGameStates returned
CheckRead(c) ==
  \E rows \in getAllGameStates(players) :
  LET cl == client[c]
      w == StandingsWinner(rows, game_state)
  IN
  /\ checks[c].reads > 0
  /\ IF AllComplete(players, game_state) /\ ~cl.gameCompletionHandled
     THEN /\ client' = [client EXCEPT ![c] =
                 updateUI([cl EXCEPT !.gameCompletionHandled = TRUE])]
          /\ checks' = [checks EXCEPT
                 ![c].reads = @ - 1,
                 ![c].writes = IF WritesCompletion(c, w)
                               THEN Append(@, w) ELSE @]
     ELSE /\ client' = [client EXCEPT ![c] = updateUI(cl)]
          /\ checks' = [checks EXCEPT ![c].reads = @ - 1]
  /\ UNCHANGED <<diceState, diceUI, lobby, rt, playerNotes, game, players, game_state, actions, gameNotes, stateNotes,
                 commits, rollTimers, diceWrites, rejoins, budget>>

\* endGame from a notification: syncGameComplete accepted by the store
CheckCompleteWrite(c) ==
  /\ checks[c].writes # <<>>
  /\ StoreComplete(Head(checks[c].writes))
  /\ checks' = [checks EXCEPT ![c].writes = Tail(@)]
  /\ UNCHANGED <<diceState, diceUI, lobby, rt, playerNotes, players, game_state, stateNotes, client, commits,
                 rollTimers, diceWrites, rejoins, budget>>

\* ------------------------------------------------------------------ turn end

\* syncTurnEnd: the ordered player list was read; next player computed
CommitTurnRead(c, s) ==
  /\ commits[c][s].pc = "tread"
  /\ IF c \in players
     THEN /\ commits' = [commits EXCEPT ![c][s].pc = "twrite",
                            ![c][s].next = NextPlayerOf(c, players)]
          /\ UNCHANGED client
     ELSE /\ client' = [client EXCEPT ![c] = CatchCommit(@)]
          /\ commits' = [commits EXCEPT ![c][s] = IdleCommit]
  /\ UNCHANGED <<diceState, diceUI, lobby, rt, playerNotes, game, players, game_state, actions, gameNotes, stateNotes,
                 checks, rollTimers, diceWrites, rejoins, budget>>

\* syncTurnEnd: the games row takes the next player's id
CommitTurnWrite(c, s) ==
  LET n == commits[c][s].next
      row == [game EXCEPT !.current_turn_player_id = n]
  IN
  /\ commits[c][s].pc = "twrite"
  /\ game' = row
  /\ gameNotes' = gameNotes \cup {Publish(row)}
  /\ actions' = [actions EXCEPT
        !.rolled = IF n # game.current_turn_player_id THEN 0 ELSE @]
  /\ commits' = [commits EXCEPT ![c][s].pc = "reset"]
  /\ UNCHANGED <<diceState, diceUI, lobby, rt, playerNotes, players, game_state, stateNotes, client, checks,
                 rollTimers, diceWrites, rejoins, budget>>

\* syncTurnEnd: reading the players or updating the games row failed; the
\* error reaches the catch-block of syncScoreAndEndTurn
CommitTurnFail(c, s) ==
  /\ commits[c][s].pc \in {"tread", "twrite"}
  /\ CanFail /\ Fault
  /\ client' = [client EXCEPT ![c] = CatchCommit(@)]
  /\ commits' = [commits EXCEPT ![c][s] = IdleCommit]
  /\ UNCHANGED <<diceState, diceUI, lobby, rt, playerNotes, game, players, game_state, actions, gameNotes, stateNotes,
                 checks, rollTimers, diceWrites, rejoins>>

\* syncTurnEnd: the next player's row is reset to fresh dice (an error of
\* this write is only logged)
CommitTurnReset(c, s) ==
  LET n == commits[c][s].next IN
  /\ commits[c][s].pc = "reset"
  /\ commits' = [commits EXCEPT ![c][s].pc = "tdone"]
  /\ IF n \in players
     THEN /\ game_state' = [game_state EXCEPT ![n].rolls_remaining = MAX_ROLLS]
          /\ stateNotes' = stateNotes \cup
                {StateNote(n, game_state'[n], "turn_started")}
     ELSE UNCHANGED <<game_state, stateNotes>>
  /\ UNCHANGED <<diceState, diceUI, lobby, rt, playerNotes, game, players, actions, gameNotes, client, checks,
                 rollTimers, diceWrites, rejoins, budget>>

\* syncScoreAndEndTurn after syncTurnEnd returned nextPlayerId
CommitTurnDone(c, s) ==
  LET t == commits[c][s] IN
  /\ t.pc = "tdone"
  /\ client' = [client EXCEPT ![c] =
        ReleaseLock(updateUI(updateTurnState(
          [@ EXCEPT !.currentTurnPlayerId = t.next], c)))]
  /\ commits' = [commits EXCEPT ![c][s] = IdleCommit]
  /\ UNCHANGED <<diceState, diceUI, lobby, rt, playerNotes, game, players, game_state, actions, gameNotes, stateNotes,
                 checks, rollTimers, diceWrites, rejoins, budget>>

\* -------------------------------------------------------- games notifications

\* handleGameCompleted: the one-shot flag is set before the standings load
handleGameCompleted(cl) == [cl EXCEPT !.gameCompletionHandled = TRUE]

\* handleGameUpdate(payload) for any payload published so far (delivery is
\* at-least-once and unordered)
handleGameUpdate(cl, self, n) ==
  LET turned == IF n.turn # cl.currentTurnPlayerId
                THEN updateUI(updateTurnState(
                       [cl EXCEPT !.currentTurnPlayerId = n.turn], self))
                ELSE cl
  IN IF n.status = "completed" THEN handleGameCompleted(turned) ELSE turned

DeliverGameUpdate(c, n) ==
  /\ client[c].active
  /\ n \in gameNotes
  /\ client' = [client EXCEPT ![c] = handleGameUpdate(@, c, n)]
  /\ UNCHANGED <<diceState, diceUI, lobby, rt, playerNotes, game, players, game_state, actions, gameNotes, stateNotes,
                 commits, checks, rollTimers, diceWrites, rejoins, budget>>

\* ------------------------------------------------------------ virtual dice

\* virtualDiceUI.roll (online wrapper): the next state is computed and its
\* sync requested at the click
RollClick(c) ==
  LET nextState ==
        rollDiceWithLocked(
          [createDice EXCEPT !.rollsRemaining = client[c].rollsRemaining],
          createDice.values).rollsRemaining
  IN
  /\ client[c].active
  /\ client[c].usingVirtualDice
  /\ canInteractThisTurn(client[c])
  /\ client[c].rollsRemaining > 0
  /\ client[c].controlsEnabled
  /\ CanInput(c) /\ Input(c)
  /\ rollTimers' = [rollTimers EXCEPT ![c] =
        Append(@, [rr |-> nextState, shown |-> FALSE, synced |-> FALSE])]
  /\ diceWrites' = [diceWrites EXCEPT ![c] =
        Append(@, [kind |-> "roll", rr |-> nextState, category |-> Null])]
  /\ UNCHANGED <<diceState, diceUI, lobby, rt, playerNotes, game, players, game_state, actions, gameNotes, stateNotes,
                 client, commits, checks, rejoins>>

\* the oldest roll call of queue q for which field f is still FALSE
OldestWithout(q, f) ==
  CHOOSE i \in 1..Len(q) : ~q[i][f] /\ \A j \in 1..(i - 1) : q[j][f]

\* virtualDiceUI.roll (online wrapper) after the 600 ms animation: the state
\* computed at the click replaces the UI state and is rendered
RollSettle(c) ==
  /\ \E i \in 1..Len(rollTimers[c]) : ~rollTimers[c][i].shown
  /\ LET i == OldestWithout(rollTimers[c], "shown") IN
       /\ rollTimers' = [rollTimers EXCEPT ![c][i].shown = TRUE]
       /\ client' = [client EXCEPT ![c].rollsRemaining = rollTimers[c][i].rr]
  /\ UNCHANGED <<diceState, diceUI, lobby, rt, playerNotes, game, players, game_state, actions, gameNotes, stateNotes,
                 commits, checks, diceWrites, rejoins, budget>>

\* virtualDiceUI.roll (online wrapper) once the animation has ended and the
\* sync has settled: updateVirtualDiceGameState()
RollRefresh(c) ==
  /\ rollTimers[c] # <<>>
  /\ Head(rollTimers[c]).shown /\ Head(rollTimers[c]).synced
  /\ rollTimers' = [rollTimers EXCEPT ![c] = Tail(@)]
  /\ client' = [client EXCEPT ![c] = updateVirtualDiceGameState(@, c)]
  /\ UNCHANGED <<diceState, diceUI, lobby, rt, playerNotes, game, players, game_state, actions, gameNotes, stateNotes,
                 commits, checks, diceWrites, rejoins, budget>>

\* the roll wrapper that awaits the settled write w resumes
SyncSettled(c, w) ==
  IF w.kind = "roll"
  THEN [rollTimers EXCEPT
          ![c][OldestWithout(rollTimers[c], "synced")].synced = TRUE]
  ELSE rollTimers

\* virtualDiceUI.toggleLock (online wrapper) from a click on a die, which is
\* rendered clickable after the first and before the last roll: the current
\* UI state is synced with action "lock"
ToggleLock(c) ==
  /\ client[c].active
  /\ client[c].usingVirtualDice
  /\ client[c].controlsEnabled
  /\ client[c].rollsRemaining > 0
  /\ client[c].rollsRemaining < MAX_ROLLS
  /\ canInteractThisTurn(client[c])
  /\ CanInput(c) /\ Input(c)
  /\ diceWrites' = [diceWrites EXCEPT ![c] =
        Append(@, [kind |-> "lock", rr |-> client[c].rollsRemaining,
                   category |-> Null])]
  /\ UNCHANGED <<diceState, diceUI, lobby, rt, playerNotes, game, players, game_state, actions, gameNotes, stateNotes,
                 client, commits, checks, rollTimers, rejoins>>

\* syncDiceRoll processed by the store: the row takes the sent dice state;
\* a roll is appended to the action log
DiceWrite(c) ==
  LET w == Head(diceWrites[c]) IN
  /\ diceWrites[c] # <<>>
  /\ w.kind # "announce"
  /\ diceWrites' = [diceWrites EXCEPT ![c] = Tail(@)]
  /\ rollTimers' = SyncSettled(c, w)
  /\ IF c \in players
     THEN /\ game_state' = [game_state EXCEPT ![c].rolls_remaining = w.rr]
          /\ stateNotes' = stateNotes \cup
                {StateNote(c, game_state'[c],
                           IF w.kind = "roll" THEN "roll_dice"
                           ELSE "lock_dice")}
          /\ actions' = [actions EXCEPT
                !.rolled = IF w.kind = "roll"
                              /\ c = game.current_turn_player_id
                           THEN @ + 1 ELSE @]
     ELSE UNCHANGED <<game_state, stateNotes, actions>>
  /\ UNCHANGED <<diceState, diceUI, lobby, rt, playerNotes, game, players, gameNotes, client, commits, checks,
                 rejoins, budget>>

\* virtualDiceUI.promptForAnnouncement and the click on one of its
\* categories, then announceCategory (online wrapper): the category becomes
\* the announcement of the dice view and of the local player, and
\* syncAnnounce is requested
Announce(c, category) ==
  /\ client[c].active
  /\ client[c].usingVirtualDice
  /\ client[c].controlsEnabled
  /\ client[c].rollsRemaining \in {MAX_ROLLS, MAX_ROLLS - 1}
  /\ client[c].announced = Null
  /\ canInteractThisTurn(client[c])
  /\ CanInput(c) /\ Input(c)
  /\ client' = [client EXCEPT ![c].announced = category]
  /\ diceWrites' = [diceWrites EXCEPT ![c] =
        Append(@, [kind |-> "announce", rr |-> Null, category |-> category])]
  /\ UNCHANGED <<diceState, diceUI, lobby, rt, playerNotes, game, players,
                 game_state, actions, gameNotes, stateNotes, commits, checks,
                 rollTimers, rejoins>>

\* syncAnnounce processed by the store: the row takes the category as its
\* pending announcement
AnnounceWrite(c) ==
  LET w == Head(diceWrites[c]) IN
  /\ diceWrites[c] # <<>>
  /\ w.kind = "announce"
  /\ diceWrites' = [diceWrites EXCEPT ![c] = Tail(@)]
  /\ IF c \in players
     THEN /\ game_state' = [game_state EXCEPT
                ![c].pending_announcement = w.category]
          /\ stateNotes' = stateNotes \cup
                {StateNote(c, game_state'[c], "announce")}
     ELSE UNCHANGED <<game_state, stateNotes>>
  /\ UNCHANGED <<diceState, diceUI, lobby, rt, playerNotes, game, players,
                 actions, gameNotes, client, commits, checks, rollTimers,
                 rejoins, budget>>

\* handleStateUpdate(payload) of the client's own row: the pending
\* announcement of the payload becomes the local player's announcement and
\* that of the dice view (forced), then updateUI
DeliverOwnStateUpdate(c, n) ==
  /\ client[c].active
  /\ n \in stateNotes /\ n.player_id = c
  /\ client' = [client EXCEPT ![c] =
        updateUI([@ EXCEPT !.announced = n.pending_announcement])]
  /\ UNCHANGED <<diceState, diceUI, lobby, rt, playerNotes, game, players,
                 game_state, actions, gameNotes, stateNotes, commits, checks,
                 rollTimers, diceWrites, rejoins, budget>>

\* syncDiceRoll rejected: the wrappers only log the error
DiceWriteFail(c) ==
  /\ diceWrites[c] # <<>>
  /\ CanFail /\ Fault
  /\ diceWrites' = [diceWrites EXCEPT ![c] = Tail(@)]
  /\ rollTimers' = SyncSettled(c, Head(diceWrites[c]))
  /\ UNCHANGED <<diceState, diceUI, lobby, rt, playerNotes, game, players, game_state, actions, gameNotes, stateNotes,
                 client, commits, checks, rejoins>>

\* ------------------------------------------------------- leave and reconnect

\* cleanup(): the manager forgets the game; the one-shot completion flag and
\* the commit lock are not touched
cleanup(cl) ==
  [cl EXCEPT !.active = FALSE, !.currentTurnPlayerId = Null,
             !.isMyTurn = FALSE, !.localConnectionStatus = "connected"]

\* cleanup(), realtime side: the handle is unsubscribed and dropped, the
\* resubscribe timer cleared and the status maps emptied; calls of
\* subscribeToGameUpdates that are waiting are not cancelled
cleanupRealtime(r) ==
  [r EXCEPT !.open = @ \ {r.unsubscribe}, !.unsubscribe = Null,
            !.activeId = Null, !.ready = FALSE, !.stale = {},
            !.timer = FALSE, !.attempts = 0, !.state = "idle",
            !.start = FALSE, !.warmup = FALSE,
            !.nextReconnectAttemptAt = Null,
            !.status = [p \in Players |-> "connected"]]

\* leaveGame: the player's row is deleted (its game_state row cascades); the
\* leaving client's manager cleans up and its pending calls lose their game
LeaveGame(c) ==
  /\ client[c].active
  /\ c \in players
  /\ budget.leaves < MaxLeaves
  /\ budget' = [budget EXCEPT !.leaves = @ + 1]
  /\ players' = players \ {c}
  /\ game_state' = [game_state EXCEPT ![c] = DefaultRow]
  /\ client' = [client EXCEPT ![c] = cleanup(@)]
  /\ commits' = [commits EXCEPT ![c] = [s \in Slots |-> IdleCommit]]
  /\ checks' = [checks EXCEPT ![c] = [reads |-> 0, writes |-> <<>>]]
  /\ rollTimers' = [rollTimers EXCEPT ![c] = <<>>]
  /\ diceWrites' = [diceWrites EXCEPT ![c] = <<>>]
  /\ rejoins' = [rejoins EXCEPT ![c] = "idle"]
  /\ rt' = [rt EXCEPT ![c] = cleanupRealtime(@)]
  /\ UNCHANGED <<diceState, diceUI, lobby, playerNotes, game, actions, gameNotes, stateNotes>>

\* setLocalConnectionStatus(status), realtime side: the own entry of the
\* player status map follows the local status; the status connected stops
\* the reconnect loop and clears reconnectAttemptInFlight; the status
\* disconnected, new or repeated, schedules the next reconnect attempt a
\* full interval from now (nextReconnectAttemptAt counts the loop's ticks
\* that are left)
setLocalConnectionStatus(r, self, status) ==
  [r EXCEPT !.status[self] = status,
            !.reconnectAttemptInFlight =
               IF status = "connected" THEN FALSE ELSE @,
            !.nextReconnectAttemptAt =
               IF status = "connected" THEN Null ELSE ReconnectTicks]

\* setLocalConnectionStatus("disconnected") after an offline signal
GoOffline(c) ==
  /\ client[c].active
  /\ client[c].localConnectionStatus = "connected"
  /\ budget.offline < MaxOffline
  /\ budget' = [budget EXCEPT !.offline = @ + 1]
  /\ client' = [client EXCEPT ![c] =
        updateUI([@ EXCEPT !.localConnectionStatus = "disconnected"])]
  /\ rt' = [rt EXCEPT ![c] = setLocalConnectionStatus(@, c, "disconnected")]
  /\ UNCHANGED <<diceState, diceUI, lobby, playerNotes, game, players, game_state, actions, gameNotes,
                 stateNotes, commits, checks, rollTimers, diceWrites,
                 rejoins>>

\* handleLifecycleDisconnect("offline") while the local status is
\* disconnected already: setLocalConnectionStatus("disconnected") schedules
\* the next attempt anew, and the keepalive request writes the status
\* disconnected to the player's row
DisconnectSignal(c) ==
  /\ client[c].active
  /\ client[c].localConnectionStatus = "disconnected"
  /\ rt' = [rt EXCEPT ![c] = setLocalConnectionStatus(@, c, "disconnected")]
  /\ playerNotes' =
       IF c \in players
       THEN playerNotes \cup {[id |-> c, connection_status |-> "disconnected"]}
       ELSE playerNotes
  /\ UNCHANGED <<diceState, diceUI, lobby, game, players,
                 game_state, actions, gameNotes, stateNotes, client, commits,
                 checks, rollTimers, diceWrites, rejoins, budget>>

isRealtimeLinkHealthy(r) == r.state = "connected"

\* attemptReconnect with updatePlayerConnectionStatus accepted: the attempt
\* is marked in flight, the status becomes connected (forced), then
\* recoverAfterReconnect (rejoinGame) is awaited when the realtime link is
\* not healthy or no handle is held; a recovery under way is not restarted
AttemptReconnect(c, needsRecovery) ==
  /\ client[c].active
  /\ client[c].localConnectionStatus = "disconnected"
  /\ ~rt[c].reconnectAttemptInFlight
  /\ needsRecovery =
       (~isRealtimeLinkHealthy(rt[c]) \/ rt[c].unsubscribe = Null)
  /\ client' = [client EXCEPT ![c] =
        updateUI([@ EXCEPT !.localConnectionStatus = "connected"])]
  /\ rejoins' = [rejoins EXCEPT ![c] =
        IF needsRecovery /\ @ = "idle" THEN "game" ELSE @]
  /\ rt' = [rt EXCEPT ![c] =
        LET on == setLocalConnectionStatus(
                    [@ EXCEPT !.reconnectAttemptInFlight = TRUE],
                    c, "connected")
        IN IF needsRecovery /\ rejoins[c] = "idle"
           THEN [on EXCEPT !.timer = FALSE, !.attempts = 0]
           ELSE on]
  /\ UNCHANGED <<diceState, diceUI, lobby, playerNotes, game, players, game_state, actions, gameNotes,
                 stateNotes, commits, checks, rollTimers, diceWrites, budget>>

\* tickReconnectLoop, once per reconnectCountdownTickMs while the loop
\* runs: the attempt is made (reason auto) when its time has come
TickReconnectLoop(c) ==
  /\ client[c].active
  /\ client[c].localConnectionStatus = "disconnected"
  /\ ~rt[c].reconnectAttemptInFlight
  /\ rt[c].nextReconnectAttemptAt # Null
  /\ IF rt[c].nextReconnectAttemptAt > 1
     THEN /\ rt' = [rt EXCEPT ![c].nextReconnectAttemptAt = @ - 1]
          /\ UNCHANGED <<diceState, diceUI, lobby, playerNotes, game,
                         players, game_state, actions, gameNotes, stateNotes,
                         client, commits, checks, rollTimers, diceWrites,
                         rejoins, budget>>
     ELSE \E needsRecovery \in BOOLEAN : AttemptReconnect(c, needsRecovery)

\* ------------------------------------------------------ realtime channel

SubIds == 1..MaxSubs

\* subscribeToGame and the assignments that follow it: a new handle is
\* registered in realtimeService and becomes the manager's handle
SubscribeCreate(r, skipAttemptReset) ==
  [r EXCEPT !.timer = FALSE,
            !.attempts = IF skipAttemptReset THEN @ ELSE 0,
            !.state = "connecting",
            !.warmup = TRUE,
            !.stale = @ \ {r.next},
            !.activeId = r.next,
            !.unsubscribe = r.next,
            !.open = @ \cup {r.next},
            !.next = @ + 1]

\* subscribeToGameUpdates up to its first await: a held handle is marked
\* stale and the call waits for previousUnsubscribe(); without a handle the
\* call subscribes at once
SubscribeBegin(r, origin, skipAttemptReset) ==
  IF r.unsubscribe # Null
  THEN [r EXCEPT !.stale = @ \cup {r.unsubscribe},
                 !.calls = Append(@, [prev |-> r.unsubscribe,
                                      origin |-> origin,
                                      skip |-> skipAttemptReset])]
  ELSE SubscribeCreate(r, skipAttemptReset)

\* the model holds at most MaxSubs handles per client
CanSubscribe(r) == r.next + Len(r.calls) <= MaxSubs

RemoveAt(q, i) == [j \in 1..(Len(q) - 1) |-> IF j < i THEN q[j] ELSE q[j + 1]]

\* rejoinGame after getGame returned: turn owner from the store, commit lock
\* cleared, link state "connecting", updateTurnState, then
\* subscribeToGameUpdates up to its first await
RejoinGame(c) ==
  LET r == SubscribeBegin([rt[c] EXCEPT !.state = "connecting",
                                        !.warmup = TRUE],
                          "rejoin", FALSE)
  IN
  /\ rejoins[c] = "game"
  /\ CanSubscribe(rt[c])
  /\ rt' = [rt EXCEPT ![c] = r]
  /\ rejoins' = [rejoins EXCEPT ![c] =
        IF rt[c].unsubscribe # Null THEN "subscribe" ELSE "states"]
  /\ client' = [client EXCEPT ![c] =
        updateTurnState(
          [@ EXCEPT !.currentTurnPlayerId = game.current_turn_player_id,
                    !.turnChangePending = FALSE], c)]
  /\ UNCHANGED <<diceState, diceUI, lobby, playerNotes, game, players, game_state, actions, gameNotes,
                 stateNotes, commits, checks, rollTimers, diceWrites, budget>>

\* subscribeToGameUpdates resumes after previousUnsubscribe(): with removed
\* the old handle has left realtimeService, else the unsubscribe threw and
\* only a warning is logged; the manager's handle is cleared and a new
\* handle is subscribed.  The caller continues: rejoinGame goes on to
\* getAllGameStates, handleGameStarted to updateVirtualDiceGameState.
SubscribeResume(c, i, removed) ==
  LET call == rt[c].calls[i]
      cleared == [rt[c] EXCEPT
                    !.open = IF removed THEN @ \ {call.prev} ELSE @,
                    !.activeId = Null,
                    !.unsubscribe = Null,
                    !.calls = RemoveAt(@, i)]
  IN
  /\ i \in 1..Len(rt[c].calls)
  /\ IF removed THEN UNCHANGED budget ELSE CanFail /\ Fault
  /\ rt' = [rt EXCEPT ![c] = SubscribeCreate(cleared, call.skip)]
  /\ rejoins' = [rejoins EXCEPT ![c] =
        IF call.origin = "rejoin" /\ @ = "subscribe" THEN "states" ELSE @]
  /\ client' = [client EXCEPT ![c] =
        IF call.origin = "start" /\ @.active
        THEN updateVirtualDiceGameState(@, c) ELSE @]
  /\ UNCHANGED <<diceState, diceUI, lobby, playerNotes, game, players, game_state, actions, gameNotes,
                 stateNotes, commits, checks, rollTimers, diceWrites>>

\* scheduleRealtimeResubscribe: one timer at a time, no more than
\* realtimeMaxResubscribeAttempts attempts
scheduleRealtimeResubscribe(r) ==
  IF r.timer \/ r.attempts >= realtimeMaxResubscribeAttempts THEN r
  ELSE [r EXCEPT !.attempts = @ + 1, !.timer = TRUE]

\* the resubscribe timer fires: performRealtimeResubscribe calls
\* subscribeToGameUpdates({skipAttemptReset: true})
ResubscribeTimer(c) ==
  /\ client[c].active
  /\ rt[c].timer
  /\ CanSubscribe(rt[c])
  /\ rt' = [rt EXCEPT ![c] =
        SubscribeBegin([@ EXCEPT !.timer = FALSE], "timer", TRUE)]
  /\ UNCHANGED <<diceState, diceUI, lobby, playerNotes, game, players, game_state, actions, gameNotes,
                 stateNotes, client, commits, checks, rollTimers, diceWrites,
                 rejoins, budget>>

StatusKinds == {"SUBSCRIBED", "CHANNEL_ERROR", "CLOSED"}

\* handleRealtimeStatusChange(status, {subscriptionId: id}): ignored for a
\* stale handle and for a handle other than the active one; SUBSCRIBED makes
\* the link connected, restores the local status and dispatches the
\* channel-ready signal unless it has been notified (the lobby dialog then
\* starts closing); CHANNEL_ERROR and CLOSED make the link unstable, put the
\* local status to disconnected and schedule a resubscription
ChannelStatus(c, id, status) ==
  LET r == rt[c]
      cl == client[c]
      ignored == \/ id \in r.stale
                 \/ (r.activeId # Null /\ id # r.activeId)
      up == [r EXCEPT !.state = "connected", !.attempts = 0,
                      !.warmup = TRUE,
                      !.timer = FALSE,
                      !.ready = TRUE,
                      !.signals = IF r.ready THEN @ ELSE @ + 1,
                      !.lobby = IF ~r.ready /\ @ = "open" THEN "closing"
                                ELSE @]
      down == scheduleRealtimeResubscribe(
                [r EXCEPT !.state = "unstable", !.warmup = TRUE])
  IN
  /\ cl.active
  /\ id \in 1..(r.next - 1)
  /\ status = "SUBSCRIBED" => id \in r.open
  /\ IF ignored
     THEN UNCHANGED <<rt, client, budget>>
     ELSE IF status = "SUBSCRIBED"
     THEN /\ rt' = [rt EXCEPT ![c] =
                      setLocalConnectionStatus(up, c, "connected")]
          /\ client' = [client EXCEPT ![c] =
                updateUI([cl EXCEPT !.localConnectionStatus = "connected"])]
          /\ UNCHANGED budget
     ELSE /\ budget.offline < MaxOffline
          /\ budget' = [budget EXCEPT !.offline = @ + 1]
          /\ rt' = [rt EXCEPT ![c] =
                      setLocalConnectionStatus(down, c, "disconnected")]
          /\ client' = [client EXCEPT ![c] =
                updateUI([cl EXCEPT !.localConnectionStatus = "disconnected"])]
  /\ UNCHANGED <<diceState, diceUI, lobby, playerNotes, game, players, game_state, actions, gameNotes,
                 stateNotes, commits, checks, rollTimers, diceWrites,
                 rejoins>>

\* a games row change delivered by the open handle id: subscribeToGame hands
\* the payload to handleGameUpdate without the handle's identity
ChannelGameUpdate(c, id, n) ==
  /\ client[c].active
  /\ id \in rt[c].open
  /\ n \in gameNotes
  /\ client' = [client EXCEPT ![c] = handleGameUpdate(@, c, n)]
  /\ UNCHANGED <<diceState, diceUI, lobby, rt, playerNotes, game, players, game_state, actions, gameNotes,
                 stateNotes, commits, checks, rollTimers, diceWrites,
                 rejoins, budget>>

\* a handlePlayerUpdate that takes the local connection status from a
\* payload about the local player
handlePlayerUpdateEcho(cl, self, r, n) ==
  IF n.id = self
  THEN updateUI([cl EXCEPT !.localConnectionStatus = n.connection_status])
  ELSE IF r.status[n.id] # n.connection_status THEN updateUI(cl) ELSE cl

\* handlePlayerUpdate(payload) of an UPDATE: the player list entry and the
\* status maps take the payload's connection_status, for the local player
\* as for any other, and a changed status refreshes the UI; the local
\* connection status is not assigned
handlePlayerUpdate(cl, self, r, n) ==
  IF r.status[n.id] # n.connection_status THEN updateUI(cl) ELSE cl

\* a players row change delivered by the open handle id
ChannelPlayerUpdate(c, id, n) ==
  /\ client[c].active
  /\ id \in rt[c].open
  /\ n \in playerNotes
  /\ n.id \in players
  /\ client' = [client EXCEPT ![c] = handlePlayerUpdate(@, c, rt[c], n)]
  /\ rt' = [rt EXCEPT ![c].status[n.id] = n.connection_status]
  /\ UNCHANGED <<diceState, diceUI, lobby, playerNotes, game, players, game_state, actions, gameNotes,
                 stateNotes, commits, checks, rollTimers, diceWrites,
                 rejoins, budget>>

\* applyPresenceStatuses(connectedIds): the desired status of the local
\* player is the local connection status; another player is connected when
\* present, keeps its status while the link is not healthy, and is
\* disconnected once it has been missing for the grace period
desiredStatus(r, cl, self, p, connectedIds, graceOver) ==
  IF p = self THEN cl.localConnectionStatus
  ELSE IF p \in connectedIds THEN "connected"
  ELSE IF ~isRealtimeLinkHealthy(r) THEN r.status[p]
  ELSE IF graceOver THEN "disconnected"
  ELSE r.status[p]

\* a presence evaluation that writes the status of every player, changed
\* or not
ChannelPresenceAlways(c, id, connectedIds, graceOver) ==
  LET r == rt[c]
      want == [p \in Players |->
                 IF p \in players
                 THEN desiredStatus(r, client[c], c, p, connectedIds,
                                    graceOver)
                 ELSE r.status[p]]
  IN
  /\ client[c].active
  /\ id \in r.open
  /\ connectedIds \subseteq {c}
  /\ rt' = [rt EXCEPT ![c].status = want]
  /\ playerNotes' = playerNotes \cup
        {[id |-> p, connection_status |-> want[p]] : p \in players}
  /\ UNCHANGED <<diceState, diceUI, lobby, game, players, game_state,
                 actions, gameNotes, stateNotes, client, commits, checks,
                 rollTimers, diceWrites, rejoins, budget>>

\* a presence event (sync, join, leave) of the open handle id, whose channel
\* topic is the handle's own: handlePresenceSync, then applyPresenceStatuses,
\* which writes every changed status to the players table
ChannelPresence(c, id, connectedIds, graceOver) ==
  LET r == rt[c]
      want == [p \in Players |->
                 IF p \in players
                 THEN desiredStatus(r, client[c], c, p, connectedIds,
                                    graceOver)
                 ELSE r.status[p]]
  IN
  /\ client[c].active
  /\ id \in r.open
  /\ connectedIds \subseteq {c}
  /\ rt' = [rt EXCEPT ![c].status = want]
  /\ playerNotes' = playerNotes \cup
        {[id |-> p, connection_status |-> want[p]] :
           p \in {q \in Players : want[q] # r.status[q]}}
  /\ UNCHANGED <<diceState, diceUI, lobby, game, players, game_state, actions, gameNotes, stateNotes,
                 client, commits, checks, rollTimers, diceWrites, rejoins,
                 budget>>

\* the clock passes presenceWarmupUntil
PresenceWarmupOver(c) ==
  /\ client[c].active
  /\ rt[c].warmup
  /\ rt' = [rt EXCEPT ![c].warmup = FALSE]
  /\ UNCHANGED <<diceState, diceUI, lobby, playerNotes, game, players,
                 game_state, actions, gameNotes, stateNotes, client, commits,
                 checks, rollTimers, diceWrites, rejoins, budget>>

\* onlineLobbyUI.handleGameUpdate: while the lobby dialog is subscribed, a
\* games payload with status in_progress dispatches onlineGameStarted, and
\* handleGameStarted runs up to its first await (getGame): local status
\* connected, link state connecting, channel-ready flag cleared
LobbyGameUpdate(c, n) ==
  /\ client[c].active
  /\ rt[c].lobby # "closed"
  /\ n \in gameNotes /\ n.status = "in_progress"
  /\ ~rt[c].start
  /\ rt[c].signals < MaxSignals
  /\ rt' = [rt EXCEPT ![c] =
        setLocalConnectionStatus(
          [@ EXCEPT !.state = "connecting", !.ready = FALSE,
                    !.warmup = TRUE, !.start = TRUE], c, "connected")]
  /\ client' = [client EXCEPT ![c] =
        [@ EXCEPT !.turnChangePending = FALSE,
                  !.localConnectionStatus = "connected"]]
  /\ UNCHANGED <<diceState, diceUI, lobby, playerNotes, game, players, game_state, actions, gameNotes,
                 stateNotes, commits, checks, rollTimers, diceWrites,
                 rejoins, budget>>

\* handleGameStarted after getGame returned: turn owner from the store,
\* updateTurnState, then subscribeToGameUpdates up to its first await
GameStartFetched(c) ==
  /\ client[c].active
  /\ rt[c].start
  /\ CanSubscribe(rt[c])
  /\ rt' = [rt EXCEPT ![c] =
        SubscribeBegin([@ EXCEPT !.start = FALSE], "start", FALSE)]
  /\ client' = [client EXCEPT ![c] =
        LET turned == updateTurnState(
              [@ EXCEPT !.currentTurnPlayerId =
                           game.current_turn_player_id], c)
        IN IF rt[c].unsubscribe = Null
           THEN updateVirtualDiceGameState(turned, c) ELSE turned]
  /\ UNCHANGED <<diceState, diceUI, lobby, playerNotes, game, players, game_state, actions, gameNotes,
                 stateNotes, commits, checks, rollTimers, diceWrites,
                 rejoins, budget>>

\* the lobby dialog's cleanup ends: its own subscription is gone
LobbyClosed(c) ==
  /\ rt[c].lobby = "closing"
  /\ rt' = [rt EXCEPT ![c].lobby = "closed"]
  /\ UNCHANGED <<diceState, diceUI, lobby, playerNotes, game, players, game_state, actions, gameNotes,
                 stateNotes, client, commits, checks, rollTimers, diceWrites,
                 rejoins, budget>>

\* rejoinGame after getAllGameStates returned: showMyScorecard puts the own
\* row's scorecard into the sheet; with virtual dice the dice view takes the
\* own scorecard and dice state on the own turn, those of the turn owner's
\* row otherwise, and the default dice when that row is missing
RejoinStates(c) ==
  LET cl == client[c]
      row == IF c \in players THEN game_state[c] ELSE DefaultRow
      t == cl.currentTurnPlayerId
      sheet == [cl EXCEPT !.scores = row.scorecard]
      dice == IF cl.isMyTurn
              THEN [sheet EXCEPT !.view = row.scorecard, !.viewOf = c,
                                 !.rollsRemaining = row.rolls_remaining]
              ELSE IF t \in players
              THEN [sheet EXCEPT !.view = game_state[t].scorecard,
                                 !.viewOf = t,
                                 !.rollsRemaining =
                                    game_state[t].rolls_remaining]
              ELSE [sheet EXCEPT !.view = row.scorecard, !.viewOf = c,
                                 !.rollsRemaining = createDiceState]
  IN
  /\ rejoins[c] = "states"
  /\ rejoins' = [rejoins EXCEPT ![c] = "idle"]
  /\ client' = [client EXCEPT ![c] =
        updateUI(IF cl.usingVirtualDice THEN dice ELSE sheet)]
  /\ UNCHANGED <<diceState, diceUI, lobby, rt, playerNotes, game, players, game_state, actions, gameNotes, stateNotes,
                 commits, checks, rollTimers, diceWrites, budget>>

\* ------------------------------------------------------- a further game

\* the "Back to Lobby" button of the winner screen: cleanup() of the
\* manager; the rows of the completed game stay in the store
BackToLobby(c) ==
  /\ client[c].active
  /\ client[c].gameCompletionHandled
  /\ game.status = "completed"
  /\ client' = [client EXCEPT ![c] = cleanup(@)]
  /\ commits' = [commits EXCEPT ![c] = [s \in Slots |-> IdleCommit]]
  /\ checks' = [checks EXCEPT ![c] = [reads |-> 0, writes |-> <<>>]]
  /\ rollTimers' = [rollTimers EXCEPT ![c] = <<>>]
  /\ diceWrites' = [diceWrites EXCEPT ![c] = <<>>]
  /\ rejoins' = [rejoins EXCEPT ![c] = "idle"]
  /\ rt' = [rt EXCEPT ![c] = cleanupRealtime(@)]
  /\ UNCHANGED <<diceState, diceUI, lobby, playerNotes, game, players,
                 game_state, actions, gameNotes, stateNotes, budget>>

\* createGame, joinGame and startGame of a further room by the same
\* players, once every manager has left the completed game: the store holds
\* the rows of the started game and its channel has carried the start only
NewGame ==
  /\ game.status = "completed"
  /\ \A c \in Players : ~client[c].active
  /\ game' = [status |-> "in_progress", current_turn_player_id |-> HostId,
              winner_id |-> Null]
  /\ players' = Players
  /\ game_state' = [p \in Players |-> DefaultRow]
  /\ actions' = [rolled |-> 0, completed |-> 0]
  /\ gameNotes' = {[turn |-> HostId, status |-> "in_progress"]}
  /\ stateNotes' = {}
  /\ playerNotes' = {}
  /\ UNCHANGED <<diceState, diceUI, lobby, client, commits, checks,
                 rollTimers, diceWrites, rejoins, rt, budget>>

\* handleGameStarted on a manager that holds no game, with its awaits
\* returned: the fields it assigns take the values of the started game,
\* updateTurnState, subscribeToGameUpdates, updateVirtualDiceGameState,
\* restoreGameState, updateUI; every other field keeps its value
GameStarted(c) ==
  LET t == game.current_turn_player_id IN
  /\ ~client[c].active
  /\ c \in players
  /\ game.status = "in_progress"
  /\ CanSubscribe(rt[c])
  /\ client' = [client EXCEPT ![c] =
        updateUI(updateVirtualDiceGameState(updateTurnState(
          [@ EXCEPT !.active = TRUE,
                    !.usingVirtualDice = TRUE,
                    !.turnChangePending = FALSE,
                    !.localConnectionStatus = "connected",
                    !.currentTurnPlayerId = t,
                    !.scores = game_state[c].scorecard,
                    !.rollsRemaining = game_state[t].rolls_remaining,
                    !.announced = game_state[c].pending_announcement],
          c), c))]
  /\ rt' = [rt EXCEPT ![c] =
        SubscribeCreate([@ EXCEPT !.ready = FALSE,
                                  !.reconnectAttemptInFlight = FALSE,
                                  !.nextReconnectAttemptAt = Null],
                        FALSE)]
  /\ UNCHANGED <<diceState, diceUI, lobby, playerNotes, game, players,
                 game_state, actions, gameNotes, stateNotes, commits, checks,
                 rollTimers, diceWrites, rejoins, budget>>

\* ---------------------------------------------------------- specification

\* the steps of one syncScoreAndEndTurn call: the score entry, the
\* completion check, the turn end
CommitScore(c, s) ==
  \/ CommitRead(c, s)
  \/ CommitReadFail(c, s)
  \/ CommitWrite(c, s)
  \/ CommitWriteFail(c, s)
  \/ CommitWriteDone(c, s)

CommitComplete(c, s) ==
  \/ CommitCheckRead(c, s)
  \/ CommitCompleteWrite(c, s)
  \/ CommitCompleteFail(c, s)

CommitTurn(c, s) ==
  \/ CommitTurnRead(c, s)
  \/ CommitTurnWrite(c, s)
  \/ CommitTurnFail(c, s)
  \/ CommitTurnReset(c, s)
  \/ CommitTurnDone(c, s)

Commit(c, s) == CommitScore(c, s) \/ CommitComplete(c, s) \/ CommitTurn(c, s)

\* --------------------------------------------------- lobby: join and start

\* joinGame(roomCode, playerName) is called
JoinCall(c) ==
  /\ c \notin players
  /\ lobby[c].pc = "idle"
  /\ lobby' = [lobby EXCEPT ![c].pc = "jgame", ![c].outcome = "none"]
  /\ UNCHANGED <<diceState, diceUI, rt, playerNotes, game, players, game_state,
                 actions, gameNotes, stateNotes, client, commits, checks,
                 rollTimers, diceWrites, rejoins, budget>>

\* joinGame: the games row was read
JoinReadGame(c) ==
  /\ lobby[c].pc = "jgame"
  /\ lobby' = [lobby EXCEPT ![c] =
        IF game.status # "waiting"
        THEN [@ EXCEPT !.pc = "idle", !.outcome = "not waiting"]
        ELSE [@ EXCEPT !.pc = "jplayers"]]
  /\ UNCHANGED <<diceState, diceUI, rt, playerNotes, game, players, game_state,
                 actions, gameNotes, stateNotes, client, commits, checks,
                 rollTimers, diceWrites, rejoins, budget>>

\* joinGame: the players rows were read and counted against max_players;
\* the new row's player_order is the count plus one
JoinReadPlayers(c) ==
  /\ lobby[c].pc = "jplayers"
  /\ lobby' = [lobby EXCEPT ![c] =
        IF Cardinality(players) >= max_players
        THEN [@ EXCEPT !.pc = "idle", !.outcome = "full"]
        ELSE [@ EXCEPT !.pc = "jinsert",
                       !.player_order = Cardinality(players) + 1]]
  /\ UNCHANGED <<diceState, diceUI, rt, playerNotes, game, players, game_state,
                 actions, gameNotes, stateNotes, client, commits, checks,
                 rollTimers, diceWrites, rejoins, budget>>

\* joinGame: the players row and the game_state row are inserted; the
\* store refuses a player_order the game already has
JoinInsert(c) ==
  /\ lobby[c].pc = "jinsert"
  /\ IF \E p \in players : lobby[p].player_order = lobby[c].player_order
     THEN /\ lobby' = [lobby EXCEPT ![c].pc = "idle",
                                    ![c].outcome = "failed",
                                    ![c].player_order = 0]
          /\ UNCHANGED players
     ELSE /\ lobby' = [lobby EXCEPT ![c].pc = "idle",
                                    ![c].outcome = "joined"]
          /\ players' = players \cup {c}
  /\ UNCHANGED <<diceState, diceUI, rt, playerNotes, game, game_state,
                 actions, gameNotes, stateNotes, client, commits, checks,
                 rollTimers, diceWrites, rejoins, budget>>

\* leaveGame in the waiting room: the players row is deleted
LobbyLeave(c) ==
  /\ c \in players
  /\ c # HostId
  /\ lobby[c].pc = "idle"
  /\ players' = players \ {c}
  /\ lobby' = [lobby EXCEPT ![c].outcome = "left", ![c].player_order = 0]
  /\ UNCHANGED <<diceState, diceUI, rt, playerNotes, game, game_state,
                 actions, gameNotes, stateNotes, client, commits, checks,
                 rollTimers, diceWrites, rejoins, budget>>

\* handleStartGame: a dialog that is not the host's returns, the host's
\* calls startGame
StartCall(c) ==
  /\ c \in players
  /\ lobby[c].pc = "idle"
  /\ lobby' = [lobby EXCEPT ![c] =
        IF c = HostId THEN [@ EXCEPT !.pc = "shost", !.outcome = "none"]
        ELSE [@ EXCEPT !.outcome = "refused"]]
  /\ UNCHANGED <<diceState, diceUI, rt, playerNotes, game, players, game_state,
                 actions, gameNotes, stateNotes, client, commits, checks,
                 rollTimers, diceWrites, rejoins, budget>>

\* startGame: the three reads, one await each: the caller's is_host, the
\* games row's status, the players rows
StartRead(c) ==
  LET refuse == [lobby[c] EXCEPT !.pc = "idle", !.outcome = "refused"] IN
  /\ lobby[c].pc \in {"shost", "sstatus", "splayers"}
  /\ lobby' = [lobby EXCEPT ![c] =
        IF lobby[c].pc = "shost"
        THEN IF c \in players /\ c = HostId
             THEN [@ EXCEPT !.pc = "sstatus"] ELSE refuse
        ELSE IF lobby[c].pc = "sstatus"
        THEN IF game.status = "waiting"
             THEN [@ EXCEPT !.pc = "splayers"] ELSE refuse
        ELSE IF Cardinality(players) >= 2
             THEN [@ EXCEPT !.pc = "swrite"] ELSE refuse]
  /\ UNCHANGED <<diceState, diceUI, rt, playerNotes, game, players, game_state,
                 actions, gameNotes, stateNotes, client, commits, checks,
                 rollTimers, diceWrites, rejoins, budget>>

\* startGame: the games row takes status in_progress and the first player
\* as turn owner
StartWrite(c) ==
  LET row == [game EXCEPT !.status = "in_progress",
                          !.current_turn_player_id = HostId]
  IN
  /\ lobby[c].pc = "swrite"
  /\ game' = row
  /\ gameNotes' = gameNotes \cup {Publish(row)}
  /\ lobby' = [lobby EXCEPT ![c].pc = "idle", ![c].outcome = "started"]
  /\ UNCHANGED <<diceState, diceUI, rt, playerNotes, players, game_state,
                 actions, stateNotes, client, commits, checks,
                 rollTimers, diceWrites, rejoins, budget>>

\* ------------------------------------------- local dice and column rules

\* rollDiceWithLocked applied to the dice state
DiceRoll(draws) ==
  /\ diceState' = rollDiceWithLocked(diceState, draws)
  /\ UNCHANGED <<diceUI, lobby, rt, playerNotes, game, players, game_state,
                 actions, gameNotes, stateNotes, client, commits, checks,
                 rollTimers, diceWrites, rejoins, budget>>

\* toggleDiceLock applied to the dice state
DiceToggle(index) ==
  /\ diceState' = toggleDiceLock(diceState, index)
  /\ UNCHANGED <<diceUI, lobby, rt, playerNotes, game, players, game_state,
                 actions, gameNotes, stateNotes, client, commits, checks,
                 rollTimers, diceWrites, rejoins, budget>>

\* VirtualDiceUI.roll(): refused after the first roll while an announcement
\* is needed and has not been made
SheetRoll ==
  /\ diceUI.rollsRemaining > 0
  /\ ~(/\ checkIfAnnouncementNeeded(diceUI)
       /\ diceUI.announced = Null
       /\ diceUI.rollsRemaining = 2)
  /\ diceUI' = [diceUI EXCEPT !.rollsRemaining = @ - 1]
  /\ UNCHANGED <<diceState, lobby, rt, playerNotes, game, players, game_state,
                 actions, gameNotes, stateNotes, client, commits, checks,
                 rollTimers, diceWrites, rejoins, budget>>

\* promptForAnnouncement() and the click on one of its categories:
\* announceCategory(category)
SheetAnnounce(category) ==
  /\ diceUI.rollsRemaining \in {3, 2}
  /\ diceUI.announced = Null
  /\ category \in getAvailableCategories("announce", diceUI.scores, Null)
  /\ diceUI' = [diceUI EXCEPT !.announced = category]
  /\ UNCHANGED <<diceState, lobby, rt, playerNotes, game, players, game_state,
                 actions, gameNotes, stateNotes, client, commits, checks,
                 rollTimers, diceWrites, rejoins, budget>>

\* click on a scoring option: handleMainPanelScoreSelect fills the cell and
\* starts the next turn, dropping the announcement after an announce cell
SheetFill(column, category) ==
  /\ <<column, category>> \in calculateScoringOptions(diceUI)
  /\ diceUI' = [scores |-> diceUI.scores \cup {<<column, category>>},
               announced |-> IF column = "announce" THEN Null
                             ELSE diceUI.announced,
               rollsRemaining |-> MAX_ROLLS]
  /\ UNCHANGED <<diceState, lobby, rt, playerNotes, game, players, game_state,
                 actions, gameNotes, stateNotes, client, commits, checks,
                 rollTimers, diceWrites, rejoins, budget>>

Next ==
  \/ \E c \in Players : PresenceWarmupOver(c)
  \/ \E c \in Players : BackToLobby(c)
  \/ NewGame
  \/ \E c \in Players : GameStarted(c)
  \/ \E c \in Players : DisconnectSignal(c)
  \/ \E c \in Players : TickReconnectLoop(c)
  \/ \E c \in Players, category \in Cats : Announce(c, category)
  \/ \E c \in Players : AnnounceWrite(c)
  \/ \E c \in Players, n \in stateNotes : DeliverOwnStateUpdate(c, n)
  \/ \E c \in Callers : JoinCall(c)
  \/ \E c \in Callers : JoinReadGame(c)
  \/ \E c \in Callers : JoinReadPlayers(c)
  \/ \E c \in Callers : JoinInsert(c)
  \/ \E c \in Callers : LobbyLeave(c)
  \/ \E c \in Callers : StartCall(c)
  \/ \E c \in Callers : StartRead(c)
  \/ \E c \in Callers : StartWrite(c)
  \/ \E draws \in [Dice -> Faces] : DiceRoll(draws)
  \/ \E index \in 0..(NumDice + 1) : DiceToggle(index)
  \/ SheetRoll
  \/ \E category \in Cats : SheetAnnounce(category)
  \/ \E column \in Cols, category \in Cats : SheetFill(column, category)
  \/ \E c \in Players, k \in Keys, v \in Vals : ScoreSelect(c, k, v)
  \/ \E c \in Players, k \in Keys, v \in Vals : ManualScoreCommit(c, k, v)
  \/ \E c \in Players, s \in Slots : ManualRead(c, s)
  \/ \E c \in Players, s \in Slots : ManualReadFail(c, s)
  \/ \E c \in Players, s \in Slots : Commit(c, s)
  \/ \E c \in Players, n \in stateNotes : DeliverStateUpdate(c, n)
  \/ \E c \in Players : CheckRead(c)
  \/ \E c \in Players : CheckCompleteWrite(c)
  \/ \E c \in Players, n \in gameNotes : DeliverGameUpdate(c, n)
  \/ \E c \in Players : RollClick(c)
  \/ \E c \in Players : RollSettle(c)
  \/ \E c \in Players : RollRefresh(c)
  \/ \E c \in Players : ToggleLock(c)
  \/ \E c \in Players : DiceWrite(c)
  \/ \E c \in Players : DiceWriteFail(c)
  \/ \E c \in Players : LeaveGame(c)
  \/ \E c \in Players : GoOffline(c)
  \/ \E c \in Players, r \in BOOLEAN : AttemptReconnect(c, r)
  \/ \E c \in Players : RejoinGame(c)
  \/ \E c \in Players : RejoinStates(c)
  \/ \E c \in Players, i \in SubIds, ok \in BOOLEAN : SubscribeResume(c, i, ok)
  \/ \E c \in Players : ResubscribeTimer(c)
  \/ \E c \in Players, id \in SubIds, st \in StatusKinds :
        ChannelStatus(c, id, st)
  \/ \E c \in Players, id \in SubIds, n \in gameNotes :
        ChannelGameUpdate(c, id, n)
  \/ \E c \in Players, id \in SubIds, n \in playerNotes :
        ChannelPlayerUpdate(c, id, n)
  \/ \E c \in Players, id \in SubIds, ids \in SUBSET Players,
        g \in BOOLEAN : ChannelPresence(c, id, ids, g)
  \/ \E c \in Players, n \in gameNotes : LobbyGameUpdate(c, n)
  \/ \E c \in Players : GameStartFetched(c)
  \/ \E c \in Players : LobbyClosed(c)

Spec == Init /\ [][Next]_vars

\* ------------------------------------------------- focused specifications
\* Each leaves some handlers out of Next, so every behaviour of it is a
\* behaviour of Spec.

\* turn protocol: dice, score commit, games notifications, departures
NextTurn ==
  \/ \E c \in Players, k \in Keys, v \in Vals : ScoreSelect(c, k, v)
  \/ \E c \in Players, s \in Slots : Commit(c, s)
  \/ \E c \in Players, n \in gameNotes : DeliverGameUpdate(c, n)
  \/ \E c \in Players : RollClick(c)
  \/ \E c \in Players : RollSettle(c)
  \/ \E c \in Players : RollRefresh(c)
  \/ \E c \in Players : DiceWrite(c)
  \/ \E c \in Players : LeaveGame(c)

SpecTurn == Init /\ [][NextTurn]_vars

\* virtual dice: rolls, locks and their writes during the turn protocol
NextDice ==
  \/ \E c \in Players, k \in Keys, v \in Vals : ScoreSelect(c, k, v)
  \/ \E c \in Players, s \in Slots : Commit(c, s)
  \/ \E c \in Players, n \in gameNotes : DeliverGameUpdate(c, n)
  \/ \E c \in Players : RollClick(c)
  \/ \E c \in Players : RollSettle(c)
  \/ \E c \in Players : RollRefresh(c)
  \/ \E c \in Players : ToggleLock(c)
  \/ \E c \in Players : DiceWrite(c)
  \/ \E c \in Players : DiceWriteFail(c)

SpecDice == Init /\ [][NextDice]_vars

\* completion: score commits and the game_state notifications in the last
\* turn of the game, where no commit reaches the turn end
NextEnd ==
  \/ \E c \in Players, k \in Keys, v \in Vals : ScoreSelect(c, k, v)
  \/ \E c \in Players, s \in Slots : CommitScore(c, s)
  \/ \E c \in Players, s \in Slots : CommitComplete(c, s)
  \/ \E c \in Players, n \in gameNotes : DeliverGameUpdate(c, n)
  \/ \E c \in Players, n \in stateNotes : DeliverStateUpdate(c, n)
  \/ \E c \in Players : CheckRead(c)
  \/ \E c \in Players : CheckCompleteWrite(c)
  \/ \E c \in Players : RollClick(c)
  \/ \E c \in Players : RollSettle(c)
  \/ \E c \in Players : RollRefresh(c)
  \/ \E c \in Players : DiceWrite(c)

\* the last turn of a game: every player but the last in turn order has
\* filled its scorecard with a roll and a selection, the turn has passed to
\* the last player, and every earlier call and timer has finished
InitEnd ==
  \E card \in [Keys -> Vals] :
    /\ game = [status |-> "in_progress",
               current_turn_player_id |-> NumPlayers, winner_id |-> Null]
    /\ players = Players
    /\ game_state = [p \in Players |->
          IF p < NumPlayers
          THEN [DefaultRow EXCEPT !.scorecard = card,
                                  !.rolls_remaining = MAX_ROLLS - 1]
          ELSE DefaultRow]
    /\ actions = [rolled |-> 0, completed |-> 0]
    /\ gameNotes = {[turn |-> p, status |-> "in_progress"] : p \in Players}
    /\ stateNotes =
         {StateNote(p, [DefaultRow EXCEPT !.rolls_remaining = MAX_ROLLS - 1],
                    "roll_dice") : p \in 1..(NumPlayers - 1)}
         \cup {StateNote(p, game_state[p], "score_entered") :
                  p \in 1..(NumPlayers - 1)}
         \cup {StateNote(p, DefaultRow, "turn_started") : p \in 2..NumPlayers}
    /\ client = [p \in Players |->
          [NewClient(p, NumPlayers) EXCEPT
             !.scores = IF p < NumPlayers THEN card ELSE EmptyCard,
             !.view = IF p < NumPlayers THEN card ELSE EmptyCard]]
    /\ commits = [p \in Players |-> [s \in Slots |-> IdleCommit]]
    /\ checks = [p \in Players |-> [reads |-> 0, writes |-> <<>>]]
    /\ rollTimers = [p \in Players |-> <<>>]
    /\ diceWrites = [p \in Players |-> <<>>]
    /\ rejoins = [p \in Players |-> "idle"]
    /\ rt = [p \in Players |-> NewRealtime]
    /\ playerNotes = {}
    /\ diceState = createDice
    /\ diceUI = NewSheet
    /\ lobby = NoCalls
    /\ budget = [inputs |-> 2 * (NumPlayers - 1), rapid |-> 0, faults |-> 0,
                 leaves |-> 0, offline |-> 0]

SpecEnd == InitEnd /\ [][NextEnd]_vars

\* manual-entry mode: the same started game with physical dice; the run
\* holds two score inputs
InitManual ==
  /\ game = [status |-> "in_progress", current_turn_player_id |-> 1,
             winner_id |-> Null]
  /\ players = Players
  /\ game_state = [p \in Players |-> DefaultRow]
  /\ actions = [rolled |-> 0, completed |-> 0]
  /\ gameNotes = {[turn |-> 1, status |-> "in_progress"]}
  /\ stateNotes = {}
  /\ client = [p \in Players |->
        [NewClient(p, 1) EXCEPT !.usingVirtualDice = FALSE]]
  /\ commits = [p \in Players |-> [s \in Slots |-> IdleCommit]]
  /\ checks = [p \in Players |-> [reads |-> 0, writes |-> <<>>]]
  /\ rollTimers = [p \in Players |-> <<>>]
  /\ diceWrites = [p \in Players |-> <<>>]
  /\ rejoins = [p \in Players |-> "idle"]
  /\ rt = [p \in Players |-> NewRealtime]
  /\ playerNotes = {}
  /\ diceState = createDice
  /\ diceUI = NewSheet
  /\ lobby = NoCalls
  /\ budget = [inputs |-> MaxInputs - 2, rapid |-> 0, faults |-> 0,
               leaves |-> 0, offline |-> 0]

NextManual ==
  \/ \E c \in Players, k \in Keys, v \in Vals : ManualScoreCommit(c, k, v)
  \/ \E c \in Players, s \in Slots : ManualRead(c, s)
  \/ \E c \in Players, s \in Slots : ManualReadFail(c, s)
  \/ \E c \in Players, s \in Slots : Commit(c, s)
  \/ \E c \in Players, n \in gameNotes : DeliverGameUpdate(c, n)
  \/ \E c \in Players : GoOffline(c)

SpecManual == InitManual /\ [][NextManual]_vars

\* ------------------------------------------------------------- properties

\* C1: at no point do two clients of the session both hold isMyTurn.
C1_SingleTurnHolder ==
  \A c, d \in Players :
    (c # d /\ client[c].active /\ client[d].active)
      => ~(client[c].isMyTurn /\ client[d].isMyTurn)

\* no two clients pass canInteractThisTurn at once (the lasting form of C1)
SingleActor ==
  \A c, d \in Players :
    (c # d /\ client[c].active /\ client[d].active)
      => ~(canInteractThisTurn(client[c]) /\ canInteractThisTurn(client[d]))

\* the store accepts the syncScoreEntry write of a commit of player c
ScoreAccepted(c) ==
  /\ c \in players
  /\ \E s \in Slots : commits[c][s].pc = "write" /\ commits'[c][s].pc = "wdone"

\* the store accepts a syncDiceRoll write (roll or lock) of player c
DiceAccepted(c) ==
  /\ c \in players /\ c \in players'
  /\ diceWrites[c] # <<>>
  /\ diceWrites'[c] = Tail(diceWrites[c])
  /\ budget' = budget

\* C2: every dice, lock or score write the store accepts is authored by the
\* player who is the stored turn owner when the write is accepted.
C2_WritesByTurnOwner ==
  [][\A c \in Players :
       (ScoreAccepted(c) \/ DiceAccepted(c))
         => game.current_turn_player_id = c]_vars

\* C3: while the game is in progress the stored current-turn id names a
\* player who is a member of the game.
C3_TurnNamesMember ==
  game.status = "in_progress" => game.current_turn_player_id \in players

\* a turn advance to a departed player (the form of C3 that does not rest on
\* the departure of the turn owner itself)
TurnAdvanceNamesMember ==
  [][game'.current_turn_player_id # game.current_turn_player_id
       => game'.current_turn_player_id \in players']_vars

\* C4: a scorecard key present in the store is never overwritten with a
\* different value and never deleted.
C4_ScorecardAppendOnly ==
  [][\A p \in Players, k \in Keys :
       (p \in players /\ p \in players'
          /\ game_state[p].scorecard[k] # Null)
         => game_state'[p].scorecard[k] = game_state[p].scorecard[k]]_vars

\* score commits of player c that passed the already-filled check
Admitted(c) == {s \in Slots : commits[c][s].pc \notin {"idle", "read"}}

\* C5: at most one score commit of a client is admitted at any time; a
\* second selection made before the first commit finished is blocked or
\* rejected as already filled.
C5_SingleCommitInFlight ==
  \A c \in Players : Cardinality(Admitted(c)) <= 1

\* the store accepts the turn-advance write of a commit of player c
TurnAdvanceAccepted(c) ==
  \E s \in Slots : commits[c][s].pc = "twrite" /\ commits'[c][s].pc = "reset"

\* C6: the stored current-turn id changes only by the turn-advance write of
\* a commit, and every accepted turn-advance write moves it from the
\* committing player, who is the turn owner, to the next player in turn
\* order (wrapping).
C6_TurnAdvancesInOrder ==
  [][/\ (game'.current_turn_player_id # game.current_turn_player_id
          /\ game.status = "in_progress")
         => \E c \in Players : TurnAdvanceAccepted(c)
     /\ \A c \in Players :
          TurnAdvanceAccepted(c)
            => /\ game.current_turn_player_id = c
               /\ game'.current_turn_player_id = NextPlayerOf(c, players)
               /\ game'.current_turn_player_id # c]_vars

\* the scorecard write or the turn-advance write of a commit of c fails
CommitWriteFails(c) ==
  /\ budget'.faults > budget.faults
  /\ \E s \in Slots :
       commits[c][s].pc \in {"write", "twrite"} /\ commits'[c][s].pc = "idle"

\* C7: when the scorecard write or the turn-advance write of a commit fails
\* the client is back in my-turn-rolling (commit lock released, still turn
\* owner, able to act) and the error is shown.
C7_FailedCommitRollsBack ==
  [][\A c \in Players :
       CommitWriteFails(c)
         => /\ ~client'[c].turnChangePending
            /\ client'[c].lastAlert = "save_failed"
            /\ client'[c].isMyTurn
            /\ game'.current_turn_player_id = c
            /\ (~client'[c].gameCompletionHandled
                  => client'[c].controlsEnabled)]_vars

\* C8: status = completed with a winner id is written to the store at most
\* once per game.
C8_CompletionWrittenOnce == actions.completed <= 1

\* the store accepts the dice reset of syncTurnEnd for the next player p
ResetAccepted(p) ==
  \E c \in Players, s \in Slots :
    /\ commits[c][s].pc = "reset" /\ commits'[c][s].pc = "tdone"
    /\ commits[c][s].next = p

\* player p selects a score option (the step that starts a commit)
SelectionStarts(p) ==
  \E s \in Slots : commits[p][s].pc = "idle" /\ commits'[p][s].pc = "read"

\* C9: while a client holds the turn its local rolls-remaining never rises
\* (the fresh dice shown once a score is selected aside), and the
\* rolls-remaining of a store row rises only by the reset to 3 that
\* syncTurnEnd writes for the player the turn has passed to.
C9_RollsOnlyDecrease ==
  [][\A p \in Players :
       /\ (client[p].active /\ client[p].isMyTurn /\ client'[p].isMyTurn
             /\ ~SelectionStarts(p))
            => client'[p].rollsRemaining <= client[p].rollsRemaining
       /\ (p \in players /\ p \in players'
             /\ game_state'[p].rolls_remaining > game_state[p].rolls_remaining)
            => /\ game_state'[p].rolls_remaining = MAX_ROLLS
               /\ game.current_turn_player_id = p
               /\ ResetAccepted(p)]_vars

\* C10: the action log never holds more than 3 dice_rolled entries of the
\* turn owner within one turn.
C10_AtMostThreeRolls == actions.rolled <= MAX_ROLLS
\* replay: the turn protocol before the last turn of the game, with the
\* game_state notifications, each payload published so far deliverable any
\* number of times in any order
NextReplay ==
  \/ \E c \in Players, k \in Keys, v \in Vals : ScoreSelect(c, k, v)
  \/ \E c \in Players, s \in Slots : CommitScore(c, s)
  \/ \E c \in Players, s \in Slots : CommitCheckRead(c, s)
  \/ \E c \in Players, s \in Slots : CommitTurn(c, s)
  \/ \E c \in Players, n \in gameNotes : DeliverGameUpdate(c, n)
  \/ \E c \in Players, n \in stateNotes : DeliverStateUpdate(c, n)
  \/ \E c \in Players : CheckRead(c)
  \/ \E c \in Players : RollClick(c)
  \/ \E c \in Players : RollSettle(c)
  \/ \E c \in Players : RollRefresh(c)
  \/ \E c \in Players : DiceWrite(c)

\* the game at its start, with three user inputs to come
InitReplay ==
  /\ game = [status |-> "in_progress", current_turn_player_id |-> 1,
             winner_id |-> Null]
  /\ players = Players
  /\ game_state = [p \in Players |-> DefaultRow]
  /\ actions = [rolled |-> 0, completed |-> 0]
  /\ gameNotes = {[turn |-> 1, status |-> "in_progress"]}
  /\ stateNotes = {}
  /\ client = [p \in Players |-> NewClient(p, 1)]
  /\ commits = [p \in Players |-> [s \in Slots |-> IdleCommit]]
  /\ checks = [p \in Players |-> [reads |-> 0, writes |-> <<>>]]
  /\ rollTimers = [p \in Players |-> <<>>]
  /\ diceWrites = [p \in Players |-> <<>>]
  /\ rejoins = [p \in Players |-> "idle"]
  /\ rt = [p \in Players |-> NewRealtime]
  /\ playerNotes = {}
  /\ diceState = createDice
  /\ diceUI = NewSheet
  /\ lobby = NoCalls
  /\ budget = [inputs |-> MaxInputs - 3, rapid |-> 0, faults |-> 0,
               leaves |-> 0, offline |-> 0]

SpecReplay == InitReplay /\ [][NextReplay]_vars

\* reconnection: the turn protocol before the last turn of the game, with
\* connectivity loss, reconnect attempts and the recovery by rejoinGame
NextReconnect ==
  \/ \E c \in Players, k \in Keys, v \in Vals : ScoreSelect(c, k, v)
  \/ \E c \in Players, s \in Slots : CommitScore(c, s)
  \/ \E c \in Players, s \in Slots : CommitCheckRead(c, s)
  \/ \E c \in Players, s \in Slots : CommitTurn(c, s)
  \/ \E c \in Players, n \in gameNotes : DeliverGameUpdate(c, n)
  \/ \E c \in Players : RollClick(c)
  \/ \E c \in Players : RollSettle(c)
  \/ \E c \in Players : RollRefresh(c)
  \/ \E c \in Players : DiceWrite(c)
  \/ \E c \in Players : DiceWriteFail(c)
  \/ \E c \in Players : GoOffline(c)
  \/ \E c \in Players, r \in BOOLEAN : AttemptReconnect(c, r)
  \/ \E c \in Players : RejoinGame(c)
  \/ \E c \in Players : RejoinStates(c)
  \/ \E c \in Players, i \in SubIds, ok \in BOOLEAN : SubscribeResume(c, i, ok)
  \/ \E c \in Players, id \in SubIds, st \in StatusKinds :
        ChannelStatus(c, id, st)

\* the game at its start, with two user inputs to come
InitReconnect ==
  /\ game = [status |-> "in_progress", current_turn_player_id |-> 1,
             winner_id |-> Null]
  /\ players = Players
  /\ game_state = [p \in Players |-> DefaultRow]
  /\ actions = [rolled |-> 0, completed |-> 0]
  /\ gameNotes = {[turn |-> 1, status |-> "in_progress"]}
  /\ stateNotes = {}
  /\ client = [p \in Players |-> NewClient(p, 1)]
  /\ commits = [p \in Players |-> [s \in Slots |-> IdleCommit]]
  /\ checks = [p \in Players |-> [reads |-> 0, writes |-> <<>>]]
  /\ rollTimers = [p \in Players |-> <<>>]
  /\ diceWrites = [p \in Players |-> <<>>]
  /\ rejoins = [p \in Players |-> "idle"]
  /\ rt = [p \in Players |-> NewRealtime]
  /\ playerNotes = {}
  /\ diceState = createDice
  /\ diceUI = NewSheet
  /\ lobby = NoCalls
  /\ budget = [inputs |-> MaxInputs - 2, rapid |-> 0, faults |-> 0,
               leaves |-> 0, offline |-> 0]

SpecReconnect == InitReconnect /\ [][NextReconnect]_vars

\* no call, timer or recovery of any client is in progress
Quiet ==
  \A p \in Players :
    /\ \A s \in Slots : commits[p][s].pc = "idle"
    /\ rollTimers[p] = <<>>
    /\ diceWrites[p] = <<>>
    /\ rejoins[p] = "idle"

\* the reconnection of client c finishes in this step: attemptReconnect
\* without recovery, or the end of rejoinGame
ReconnectDone(c) ==
  /\ client'[c].localConnectionStatus = "connected"
  /\ rejoins'[c] = "idle"
  /\ \/ client[c].localConnectionStatus = "disconnected"
     \/ rejoins[c] = "states"

\* the local state of client c equals the store: turn owner, own scorecard,
\* the viewed scorecard, and the rolls-remaining of the turn owner's row
MatchesStore(c) ==
  LET cl == client[c]
      t == game.current_turn_player_id
  IN
  /\ cl.currentTurnPlayerId = t
  /\ cl.scores = getCurrentScorecard(c)
  /\ cl.usingVirtualDice =>
       /\ cl.view = getCurrentScorecard(cl.viewOf)
       /\ t \in players => cl.rollsRemaining = game_state[t].rolls_remaining

\* realtime channel: the game has just started, each manager has subscribed
\* and waits for SUBSCRIBED, its lobby dialog is still subscribed
InitChannel ==
  /\ game = [status |-> "in_progress", current_turn_player_id |-> 1,
             winner_id |-> Null]
  /\ players = Players
  /\ game_state = [p \in Players |-> DefaultRow]
  /\ actions = [rolled |-> 0, completed |-> 0]
  /\ gameNotes = {[turn |-> 1, status |-> "in_progress"]}
  /\ stateNotes = {}
  /\ client = [p \in Players |-> NewClient(p, 1)]
  /\ commits = [p \in Players |-> [s \in Slots |-> IdleCommit]]
  /\ checks = [p \in Players |-> [reads |-> 0, writes |-> <<>>]]
  /\ rollTimers = [p \in Players |-> <<>>]
  /\ diceWrites = [p \in Players |-> <<>>]
  /\ rejoins = [p \in Players |-> "idle"]
  /\ rt = [p \in Players |->
        [NewRealtime EXCEPT !.state = "connecting", !.ready = FALSE,
                            !.warmup = TRUE,
                            !.signals = 0, !.lobby = "open"]]
  /\ playerNotes = {}
  /\ diceState = createDice
  /\ diceUI = NewSheet
  /\ lobby = NoCalls
  /\ budget = [inputs |-> 0, rapid |-> 0, faults |-> 0, leaves |-> 0,
               offline |-> 0]

\* the subscription life cycle of the host's manager; the other managers
\* take part with their presence tracking and the players row changes
NextChannel ==
  \/ \E id \in SubIds, st \in StatusKinds : ChannelStatus(HostId, id, st)
  \/ ResubscribeTimer(HostId)
  \/ \E i \in SubIds, ok \in BOOLEAN : SubscribeResume(HostId, i, ok)
  \/ \E id \in SubIds, n \in gameNotes : ChannelGameUpdate(HostId, id, n)
  \/ \E c \in Players, id \in SubIds, n \in playerNotes :
        ChannelPlayerUpdate(c, id, n)
  \/ \E c \in Players, id \in SubIds, ids \in SUBSET Players,
        g \in BOOLEAN : ChannelPresence(c, id, ids, g)
  \/ \E n \in gameNotes : LobbyGameUpdate(HostId, n)
  \/ GameStartFetched(HostId)
  \/ LobbyClosed(HostId)
  \/ \E r \in BOOLEAN : AttemptReconnect(HostId, r)
  \/ RejoinGame(HostId)
  \/ RejoinStates(HostId)
  \/ PresenceWarmupOver(HostId)

SpecChannel == InitChannel /\ [][NextChannel]_vars

\* a score commit of player c starts in manual-entry mode
ManualStarts(c) ==
  \E s \in Slots : commits[c][s].pc = "idle" /\ commits'[c][s].pc = "mread"

C12_PresentKeyKeepsValue ==
  [][\A c \in Players, k \in Keys :
       /\ (client[c].active /\ client'[c].active
             /\ client[c].viewOf # c
             /\ client'[c].viewOf = client[c].viewOf
             /\ client[c].view[k] # Null)
            => client'[c].view[k] = client[c].view[k]
       /\ (c \in players /\ c \in players'
             /\ game_state[c].scorecard[k] # Null)
            => game_state'[c].scorecard[k] = game_state[c].scorecard[k]]_vars

\* C13: when the reconnection of an offline client finishes and nothing is
\* in flight, the client's local state (turn owner, scorecards,
\* rolls-remaining) equals the store.
C13_ReconnectMatchesStore ==
  [][\A c \in Players :
       (client[c].active /\ ReconnectDone(c) /\ Quiet')
         => MatchesStore(c)']_vars

\* handle id of client c has been torn down and replaced: it is marked
\* stale and the manager holds another handle
StaleReplaced(c, id) ==
  /\ id \in rt[c].stale
  /\ rt[c].unsubscribe # Null
  /\ rt[c].unsubscribe # id

\* an event of handle id (connection status, row change or presence) is
\* handled by client c in this step
EventFrom(c, id) ==
  \/ \E st \in StatusKinds : ChannelStatus(c, id, st)
  \/ \E n \in gameNotes : ChannelGameUpdate(c, id, n)
  \/ \E n \in playerNotes : ChannelPlayerUpdate(c, id, n)
  \/ \E ids \in SUBSET Players, g \in BOOLEAN : ChannelPresence(c, id, ids, g)

\* C14: an event of a handle that has been torn down and replaced changes
\* nothing of the client's state and causes no store write.
C14_StaleEventsIgnored ==
  [][\A c \in Players, id \in SubIds :
       (StaleReplaced(c, id) /\ EventFrom(c, id))
         => UNCHANGED <<client, rt, playerNotes>>]_vars

\* C15: each client has at most one open subscription that is not torn
\* down, and it is the one the manager holds.
C15_OneActiveSubscription ==
  \A c \in Players :
    /\ Cardinality(rt[c].open \ rt[c].stale) <= 1
    /\ (rt[c].open \ rt[c].stale) \subseteq {rt[c].unsubscribe}

C20_ChannelReadyOnce == \A c \in Players : rt[c].signals <= 1

\* C17: when the turn passes to a player, that player's row in the store
\* and that player's local dice hold three rolls; the local dice of the
\* player whose turn ended hold three rolls as well.
C17_TurnStartsFresh ==
  [][\A n \in Players :
       /\ (/\ game.current_turn_player_id # n
           /\ game'.current_turn_player_id = n
           /\ n \in players')
            => game_state'[n].rolls_remaining = MAX_ROLLS
       /\ (/\ client[n].active /\ client'[n].active
           /\ client[n].usingVirtualDice
           /\ client[n].isMyTurn # client'[n].isMyTurn)
            => client'[n].rollsRemaining = createDiceState]_vars

FirstHighest ==
  CHOOSE p \in players :
    \A q \in players :
       \/ calculateFinalScore(game_state[p].scorecard)
            > calculateFinalScore(game_state[q].scorecard)
       \/ /\ calculateFinalScore(game_state[p].scorecard)
               = calculateFinalScore(game_state[q].scorecard)
          /\ p <= q

\* C19: the winner id a client sends to the store at completion is the
\* player with the highest total, and among players that tie on the
\* highest total the first in turn order.
C19_WinnerFirstHighest ==
  [][\A c \in Players :
       /\ (CheckRead(c) /\ Len(checks'[c].writes) > Len(checks[c].writes))
            => checks'[c].writes[Len(checks'[c].writes)] = FirstHighest
       /\ \A s \in Slots :
            (CommitCheckRead(c, s) /\ commits'[c][s].pc = "cwrite")
              => commits'[c][s].winner = FirstHighest]_vars

\* ------------------------------------------------ local rules: dice, columns

\* the started game of Init with nothing in flight
OnlineIdle ==
  /\ game = [status |-> "in_progress", current_turn_player_id |-> 1,
             winner_id |-> Null]
  /\ players = Players
  /\ game_state = [p \in Players |-> DefaultRow]
  /\ actions = [rolled |-> 0, completed |-> 0]
  /\ gameNotes = {[turn |-> 1, status |-> "in_progress"]}
  /\ stateNotes = {}
  /\ client = [p \in Players |-> NewClient(p, 1)]
  /\ commits = [p \in Players |-> [s \in Slots |-> IdleCommit]]
  /\ checks = [p \in Players |-> [reads |-> 0, writes |-> <<>>]]
  /\ rollTimers = [p \in Players |-> <<>>]
  /\ diceWrites = [p \in Players |-> <<>>]
  /\ rejoins = [p \in Players |-> "idle"]
  /\ rt = [p \in Players |-> NewRealtime]
  /\ playerNotes = {}
  /\ budget = [inputs |-> 0, rapid |-> 0, faults |-> 0, leaves |-> 0,
               offline |-> 0]

\* rollDiceWithLocked and toggleDiceLock on any dice state: any values, any
\* lock mask, any number of rolls left
InitRoll ==
  /\ OnlineIdle
  /\ diceState \in [values : [Dice -> Faces], locked : [Dice -> BOOLEAN],
                rollsRemaining : 0..MAX_ROLLS, history : {<<>>}]
  /\ diceUI = NewSheet
  /\ lobby = NoCalls

NextRoll ==
  \/ \E draws \in [Dice -> Faces] : DiceRoll(draws)
  \/ \E index \in 0..(NumDice + 1) : DiceToggle(index)

SpecRoll == InitRoll /\ [][NextRoll]_vars

\* one VirtualDiceUI through the turns of a local game
InitSheet ==
  /\ OnlineIdle
  /\ diceState = createDice
  /\ diceUI = NewSheet
  /\ lobby = NoCalls

NextSheet ==
  \/ SheetRoll
  \/ \E category \in Cats : SheetAnnounce(category)
  \/ \E column \in Cols, category \in Cats : SheetFill(column, category)

SpecSheet == InitSheet /\ [][NextSheet]_vars

\* C21: a cell of the announce column is filled only while an announcement
\* is outstanding, and only the announced category.
C21_AnnounceCellNeedsAnnouncement ==
  [][\A category \in Cats :
       (<<"announce", category>> \in diceUI'.scores \ diceUI.scores)
         => diceUI.announced = category]_vars

\* C25: a roll leaves the value of every locked die unchanged.
C25_LockedDiceKept ==
  [][\A draws \in [Dice -> Faces] :
       DiceRoll(draws)
         => \A i \in Dice : diceState.locked[i] => diceState'.values[i] = diceState.values[i]]_vars

\* a roll has been made with a die locked and another die free
C25_RolledWithLock ==
  /\ diceState.history # <<>>
  /\ \E i, j \in Dice : diceState.locked[i] /\ ~diceState.locked[j]

\* C26: a roll takes exactly one roll away while rolls remain, and with no
\* roll left it returns the state unchanged.
C26_RollDecrementsOrNoOp ==
  [][\A draws \in [Dice -> Faces] :
       DiceRoll(draws)
         => IF diceState.rollsRemaining > 0
            THEN diceState'.rollsRemaining = diceState.rollsRemaining - 1
            ELSE diceState' = diceState]_vars

\* the last roll has been used
C26_RolledToZero ==
  /\ diceState.history # <<>>
  /\ diceState.rollsRemaining = 0

\* ---------------------------------------------------------------- the lobby

\* the room after createGame: status waiting, the host is the only member,
\* no manager has started a game
InitLobby ==
  /\ game = [status |-> "waiting", current_turn_player_id |-> Null,
             winner_id |-> Null]
  /\ players = {HostId}
  /\ game_state = [p \in Players |-> DefaultRow]
  /\ actions = [rolled |-> 0, completed |-> 0]
  /\ gameNotes = {}
  /\ stateNotes = {}
  /\ client = [p \in Players |-> cleanup(NewClient(p, Null))]
  /\ commits = [p \in Players |-> [s \in Slots |-> IdleCommit]]
  /\ checks = [p \in Players |-> [reads |-> 0, writes |-> <<>>]]
  /\ rollTimers = [p \in Players |-> <<>>]
  /\ diceWrites = [p \in Players |-> <<>>]
  /\ rejoins = [p \in Players |-> "idle"]
  /\ rt = [p \in Players |-> cleanupRealtime(NewRealtime)]
  /\ playerNotes = {}
  /\ diceState = createDice
  /\ diceUI = NewSheet
  /\ lobby = [c \in Callers |->
                [NoCalls[c] EXCEPT
                   !.player_order = IF c = HostId THEN 1 ELSE 0]]
  /\ budget = [inputs |-> 0, rapid |-> 0, faults |-> 0, leaves |-> 0,
               offline |-> 0]

NextLobby ==
  \/ \E c \in Callers : JoinCall(c)
  \/ \E c \in Callers : JoinReadGame(c)
  \/ \E c \in Callers : JoinReadPlayers(c)
  \/ \E c \in Callers : JoinInsert(c)
  \/ \E c \in Callers : LobbyLeave(c)
  \/ \E c \in Callers : StartCall(c)
  \/ \E c \in Callers : StartRead(c)
  \/ \E c \in Callers : StartWrite(c)

SpecLobby == InitLobby /\ [][NextLobby]_vars

\* C23: a join to a waiting room is refused as full only when six players
\* are present.
C23_FullOnlyAtSix ==
  [][\A c \in Callers :
       (JoinReadPlayers(c) /\ lobby'[c].outcome = "full")
         => Cardinality(players) >= 6]_vars

\* C24: the room leaves the waiting status only by a start of its host
\* while it is waiting and has at least two members; no other start
\* request changes the games row.
C24_StartOnlyByHostOfTwo ==
  [][/\ (game.status = "waiting" /\ game'.status # "waiting")
          => /\ StartWrite(HostId)
             /\ Cardinality(players) >= 2
     /\ \A c \in Callers :
          ((StartCall(c) \/ StartRead(c)) /\ lobby'[c].outcome = "refused")
            => game' = game]_vars

\* ------------------------------------------------------------ announcement

\* the turn owner rolls and announces; the store's notifications of its own
\* row come back in any order and any number of times
NextAnnounce ==
  \/ \E c \in Players : RollClick(c)
  \/ \E c \in Players : RollSettle(c)
  \/ \E c \in Players : RollRefresh(c)
  \/ \E c \in Players : DiceWrite(c)
  \/ \E c \in Players, category \in Cats : Announce(c, category)
  \/ \E c \in Players : AnnounceWrite(c)
  \/ \E c \in Players, n \in stateNotes : DeliverOwnStateUpdate(c, n)

SpecAnnounce == Init /\ [][NextAnnounce]_vars

\* player c has announced a category in this turn: the announcement is
\* shown locally, on its way to the store, or stored
Outstanding(c) ==
  \/ client[c].announced # Null
  \/ \E i \in 1..Len(diceWrites[c]) : diceWrites[c][i].kind = "announce"
  \/ c \in players /\ game_state[c].pending_announcement # Null

\* C22: while a player's announcement is outstanding no further
\* announcement of that player is accepted, and an announcement write
\* leaves a stored announcement as it is.
C22_SecondAnnouncementRejected ==
  [][\A c \in Players :
       /\ Outstanding(c) => \A category \in Cats : ~Announce(c, category)
       /\ (AnnounceWrite(c) /\ c \in players
             /\ game_state[c].pending_announcement # Null)
            => game_state'[c].pending_announcement
                 = game_state[c].pending_announcement]_vars

\* C29: every successful reconnection attempt marks the local status
\* connected and starts the full rehydration (rejoinGame), whatever the
\* state of the realtime link.
C29_ReconnectAlwaysRehydrates ==
  [][\A c \in Players :
       (\E needsRecovery \in BOOLEAN : AttemptReconnect(c, needsRecovery))
         => /\ client'[c].localConnectionStatus = "connected"
            /\ rejoins'[c] # "idle"]_vars

\* a syncScoreAndEndTurn call of the stored turn owner reads its scorecard
\* and finds its cell stored, with no other call of that player in flight:
\* the score write of the commit succeeded and its turn advance did not
RetryOfStoredScore(c, s) ==
  /\ commits[c][s].pc \in {"read", "mread"}
  /\ c \in players
  /\ game.status = "in_progress"
  /\ game.current_turn_player_id = c
  /\ getCurrentScorecard(c)[commits[c][s].key] # Null
  /\ \A r \in Slots \ {s} : commits[c][r].pc = "idle"

\* C27: re-attempting a commit whose score write succeeded and whose
\* turn-advance write failed goes on to the turn advance and leaves every
\* scorecard as it is.
C27_RetryCompletesTurnAdvance ==
  [][\A c \in Players, s \in Slots :
       (RetryOfStoredScore(c, s) /\ (CommitRead(c, s) \/ ManualRead(c, s)))
         => /\ commits'[c][s].pc = "tread"
            /\ game_state' = game_state]_vars

\* C28: a store write that finds a racing write is dropped: a dice or lock
\* write and a turn advance of a player whom the store no longer names as
\* turn owner, and a completion write to a game already completed, leave
\* the rows they address as they are.
C28_RacingWriteAborts ==
  [][\A c \in Players :
       /\ (DiceWrite(c) /\ game.current_turn_player_id # c)
            => game_state' = game_state
       /\ \A s \in Slots :
            (CommitTurnWrite(c, s) /\ game.current_turn_player_id # c)
              => game' = game
       /\ ((CheckCompleteWrite(c) \/ \E s \in Slots : CommitCompleteWrite(c, s))
             /\ game.status = "completed")
            => game' = game]_vars

\* C30: a client's verdict on a peer becomes disconnected only in a
\* presence evaluation that misses the peer after the grace window while
\* the client's own realtime link is healthy.
C30_DisconnectedOnlyAfterGrace ==
  [][\A c \in Players, p \in Players :
       (/\ p # c
        /\ client[c].active
        /\ rt[c].status[p] # "disconnected"
        /\ rt'[c].status[p] = "disconnected")
         => /\ isRealtimeLinkHealthy(rt[c])
            /\ \E id \in SubIds, connectedIds \in SUBSET Players :
                 /\ p \notin connectedIds
                 /\ ChannelPresence(c, id, connectedIds, TRUE)]_vars

\* C31: while the warm-up window of a subscription is open, a presence
\* evaluation flips no peer's verdict to disconnected.
C31_NoFlipInWarmup ==
  [][\A c \in Players, p \in Players :
       (/\ p # c
        /\ client[c].active
        /\ rt[c].warmup
        /\ rt[c].status[p] # "disconnected"
        /\ \E id \in SubIds, connectedIds \in SUBSET Players, g \in BOOLEAN :
             ChannelPresence(c, id, connectedIds, g))
         => rt'[c].status[p] # "disconnected"]_vars

C33_AttemptsResetOnlyBySuccess ==
  [][\A c \in Players :
       /\ rt'[c].attempts <= realtimeMaxResubscribeAttempts
       /\ (client[c].active /\ client'[c].active
             /\ rt'[c].attempts < rt[c].attempts)
            => \E id \in SubIds : ChannelStatus(c, id, "SUBSCRIBED")]_vars

\* teardown: a player leaves a running game while the subscription life
\* cycle and the reconnection of its manager are under way
NextTeardown ==
  \/ \E c \in Players : LeaveGame(c)
  \/ \E c \in Players : GoOffline(c)
  \/ \E c \in Players, r \in BOOLEAN : AttemptReconnect(c, r)
  \/ \E c \in Players : RejoinGame(c)
  \/ \E c \in Players : RejoinStates(c)
  \/ \E c \in Players : ResubscribeTimer(c)
  \/ \E c \in Players, i \in SubIds, ok \in BOOLEAN : SubscribeResume(c, i, ok)
  \/ \E c \in Players, id \in SubIds, st \in StatusKinds :
        ChannelStatus(c, id, st)

SpecTeardown == InitReconnect /\ [][NextTeardown]_vars

\* C34: a manager that has been cleaned up holds no subscription handle and
\* no resubscribe timer, at cleanup and at any later time, whatever calls
\* were waiting when cleanup ran.
C34_NothingLeftAfterCleanup ==
  \A c \in Players :
    ~client[c].active => rt[c].unsubscribe = Null /\ ~rt[c].timer

\* C35: when the write of a roll that the dice view already shows is
\* rejected, and no other roll or dice write of the player is under way,
\* the local dice go back to what the store holds for the player.
C35_RejectedRollRolledBack ==
  [][\A c \in Players :
       (/\ DiceWriteFail(c)
        /\ c \in players
        /\ Len(diceWrites[c]) = 1 /\ Head(diceWrites[c]).kind = "roll"
        /\ Len(rollTimers[c]) = 1 /\ rollTimers[c][1].shown
        /\ client[c].rollsRemaining = Head(diceWrites[c]).rr)
       => client'[c].rollsRemaining = game_state'[c].rolls_remaining]_vars

\* C36: in the first turn of the game, before any change of turn owner, the
\* store accepts at most one score write of the turn owner: a score write
\* is accepted only for a scorecard that holds nothing yet.
C36_OneScorePerTurn ==
  [][\A c \in Players :
       (/\ ScoreAccepted(c)
        /\ game.current_turn_player_id = c
        /\ gameNotes = {[turn |-> c, status |-> "in_progress"]})
       => game_state[c].scorecard = EmptyCard]_vars

\* convergence: the turn protocol in which every call under way goes on and
\* every client whose turn view differs from the games row is delivered
\* the notification of the row's last change; older notifications may be
\* delivered again at any time
SpecConverge ==
  /\ SpecTurn
  /\ WF_vars(\E c \in Players, s \in Slots : Commit(c, s))
  /\ \A c \in Players : WF_vars(DeliverGameUpdate(c, Publish(game)))

\* C37: from some point on every client in the game holds the turn owner
\* of the games row as its local turn owner, and keeps holding it.
C37_TurnViewConverges ==
  <>[](\A c \in Players :
         client[c].active
           => client[c].currentTurnPlayerId = game.current_turn_player_id)

\* C38: a reconnection attempt of a client starts only when no earlier
\* attempt of that client is still under way, that is, when no recovery
\* awaited by an earlier attempt is running.
C38_OneAttemptInFlight ==
  [][\A c \in Players, r \in BOOLEAN :
       AttemptReconnect(c, r) => rejoins[c] = "idle"]_vars

\* the reconnect loop: connectivity signals, the loop's ticks and the
\* recovery by rejoinGame; the store accepts every write
NextRetry ==
  \/ \E c \in Players : GoOffline(c)
  \/ \E c \in Players : DisconnectSignal(c)
  \/ \E c \in Players : TickReconnectLoop(c)
  \/ \E c \in Players : RejoinGame(c)
  \/ \E c \in Players : RejoinStates(c)
  \/ \E c \in Players, i \in SubIds : SubscribeResume(c, i, TRUE)
  \/ \E c \in Players, id \in SubIds, st \in StatusKinds :
        ChannelStatus(c, id, st)

\* the interval timer of the reconnect loop keeps ticking and the calls of
\* a recovery return
SpecRetry ==
  /\ InitReconnect /\ [][NextRetry]_vars
  /\ \A c \in Players :
       /\ WF_vars(TickReconnectLoop(c))
       /\ WF_vars(RejoinGame(c) \/ RejoinStates(c))
       /\ WF_vars(\E i \in SubIds : SubscribeResume(c, i, TRUE))

NextRematch ==
  \/ NextEnd
  \/ \E c \in Players : BackToLobby(c)
  \/ NewGame
  \/ \E c \in Players : GameStarted(c)

SpecRematch == InitEnd /\ [][NextRematch]_vars

\* C40: when a game starts on a manager that was cleaned up after a
\* completed game, the local player can act as soon as the turn is its own.
C40_NewGameCanAct ==
  [][\A c \in Players :
       (GameStarted(c) /\ client'[c].isMyTurn)
         => canInteractThisTurn(client'[c])]_vars
====
